---- MODULE Spec2Model ----
(***************************************************************************)
(* api-files: an Express service that stores uploaded files (multer disk   *)
(* storage under public/uploads/<date>/), registers them in an in-memory   *)
(* repository keyed by URI, and returns their bytes on request after a      *)
(* SHA-256 integrity check.                                                 *)
(*                                                                          *)
(* Strings are sequences of tokens (a token is one character, or one       *)
(* indivisible run of characters such as a directory name or a number       *)
(* printed in decimal).  JSON values of a request body are records          *)
(* [t, s, a]: t the JavaScript type, s the tokens of a string/number, a     *)
(* the elements of an array.                                                *)
(***************************************************************************)
EXTENDS Integers, Sequences, FiniteSets, TLC

(***************************************************************************)
(* Bounds of the model.                                                     *)
(***************************************************************************)
\* number of HTTP requests the model follows through the service
MaxReqs == 2
\* file parts the clients send in all, over all upload requests
MaxParts == 2
\* longest uris array a client sends
MaxUris == 2
\* the clock (Date.now) runs from 0 to MaxClock
MaxClock == 1
\* distinct values the first 8 characters of a uuid take in the model
NumUid == 2
\* how many times the environment disturbs the disk (a file altered, a
\* file removed, a read that fails)
MaxFaults == 1
\* entities registered by a direct call of the domain service
MaxDirect == 1
\* MAX_FILE_SIZE: the bytes a file may have, as configured for the model
MaxFileSize == 2
\* MAX_FILES_PER_REQUEST: the files a request may carry, as configured for
\* the model
MaxFilesPerRequest == 2
\* file parts the clients send in all when the index is looked at under
\* overlapping uploads
MaxPartsIdx == 3
\* file parts the clients send in all, and times a stored file is rewritten,
\* when a load races with a writer of the file
MaxPartsRace == 1
MaxRewrites == 2

(***************************************************************************)
(* Character and string helpers (JavaScript String / RegExp semantics).    *)
(***************************************************************************)
UpperChars == <<"A","B","C","D","E","F","G","H","I","J","K","L","M",
                "N","O","P","Q","R","S","T","U","V","W","X","Y","Z">>
LowerChars == <<"a","b","c","d","e","f","g","h","i","j","k","l","m",
                "n","o","p","q","r","s","t","u","v","w","x","y","z">>
DigitChars == {"0","1","2","3","4","5","6","7","8","9"}

Range(s) == { s[k] : k \in DOMAIN s }

\* String.prototype.toLowerCase, one character
LowerChar(c) ==
  IF \E k \in DOMAIN UpperChars : UpperChars[k] = c
  THEN LowerChars[CHOOSE k \in DOMAIN UpperChars : UpperChars[k] = c]
  ELSE c

toLowerCase(s) == [k \in DOMAIN s |-> LowerChar(s[k])]

\* the RegExp class \w
IsWordChar(c) == c \in Range(UpperChars) \cup Range(LowerChars) \cup DigitChars \cup {"_"}

\* concatenation of a sequence of strings
RECURSIVE Flatten(_)
Flatten(ss) == IF ss = <<>> THEN <<>> ELSE Head(ss) \o Flatten(Tail(ss))

\* String.prototype.startsWith
startsWith(s, p) == Len(s) >= Len(p) /\ SubSeq(s, 1, Len(p)) = p

\* first index at which p occurs in s, 0 when it does not
IndexOf(s, p) ==
  LET hits == { k \in 1..(Len(s) - Len(p) + 1) : SubSeq(s, k, k + Len(p) - 1) = p }
  IN IF hits = {} THEN 0 ELSE CHOOSE k \in hits : \A j \in hits : k <= j

\* String.prototype.replace(p, "") with a string pattern: the first
\* occurrence only
replaceFirst(s, p) ==
  LET k == IndexOf(s, p)
  IN IF k = 0 \/ p = <<>> THEN s
     ELSE SubSeq(s, 1, k - 1) \o SubSeq(s, k + Len(p), Len(s))

\* String.prototype.replace(/\\/g, "/")
replaceBackslashes(s) == [k \in DOMAIN s |-> IF s[k] = "\\" THEN "/" ELSE s[k]]

(***************************************************************************)
(* Node's path module (POSIX).                                              *)
(***************************************************************************)
\* the segments of a path between its "/" separators
RECURSIVE SplitPath(_)
SplitPath(s) ==
  LET k == IndexOf(s, <<"/">>)
  IN IF k = 0 THEN <<s>>
     ELSE <<SubSeq(s, 1, k - 1)>> \o SplitPath(SubSeq(s, k + 1, Len(s)))

\* path.normalize on segments: "" and "." dropped, ".." removes the segment
\* before it (kept at the head of a relative path, dropped at the root)
RECURSIVE NormalizeSegs(_, _, _)
NormalizeSegs(segs, acc, isAbs) ==
  IF segs = <<>> THEN acc
  ELSE LET h == Head(segs) IN
       IF h = <<>> \/ h = <<".">> THEN NormalizeSegs(Tail(segs), acc, isAbs)
       ELSE IF h = <<".", ".">> \/ h = <<"..">>
       THEN IF acc # <<>> /\ acc[Len(acc)] # <<"..">>
            THEN NormalizeSegs(Tail(segs), SubSeq(acc, 1, Len(acc) - 1), isAbs)
            ELSE IF isAbs THEN NormalizeSegs(Tail(segs), acc, isAbs)
                 ELSE NormalizeSegs(Tail(segs), Append(acc, <<"..">>), isAbs)
       ELSE NormalizeSegs(Tail(segs), Append(acc, h), isAbs)

RECURSIVE JoinSegs(_)
JoinSegs(segs) ==
  IF segs = <<>> THEN <<>>
  ELSE IF Len(segs) = 1 THEN Head(segs)
  ELSE Head(segs) \o <<"/">> \o JoinSegs(Tail(segs))

\* path.join(a, b)
pathJoin(a, b) ==
  LET joined == IF a = <<>> THEN b ELSE IF b = <<>> THEN a ELSE a \o <<"/">> \o b
      isAbs  == joined # <<>> /\ joined[1] = "/"
      segs   == NormalizeSegs(SplitPath(joined), <<>>, isAbs)
      body   == JoinSegs(segs)
  IN IF isAbs THEN <<"/">> \o body
     ELSE IF body = <<>> THEN <<".">> ELSE body

\* the last segment of a path
LastSegment(s) == LET segs == SplitPath(s) IN segs[Len(segs)]

\* index of the last "." of s, 0 when there is none
LastDot(s) ==
  LET dots == { k \in DOMAIN s : s[k] = "." }
  IN IF dots = {} THEN 0 ELSE CHOOSE k \in dots : \A j \in dots : j <= k

\* path.extname: from the last "." of the last segment to its end; empty
\* when there is no ".", when the "." is its first character, or for ".."
extname(s) ==
  LET b == LastSegment(s)
      d == LastDot(b)
  IN IF d <= 1 \/ b = <<".", ".">> THEN <<>> ELSE SubSeq(b, d, Len(b))

\* path.basename(s, ext): the last segment, without ext when it ends with
\* ext and is not ext itself
basename(s, ext) ==
  LET b == LastSegment(s)
  IN IF ext # <<>> /\ Len(b) > Len(ext)
        /\ SubSeq(b, Len(b) - Len(ext) + 1, Len(b)) = ext
     THEN SubSeq(b, 1, Len(b) - Len(ext))
     ELSE b

(***************************************************************************)
(* Naming strategy (multer disk storage).                                   *)
(***************************************************************************)
\* String.prototype.normalize("NFD"), one character: a precomposed letter
\* becomes its base letter followed by the combining mark
NFDChar(c) ==
  CASE c = "e-acute"   -> <<"e", "U+0301">>
    [] c = "A-tilde"   -> <<"A", "U+0303">>
    [] c = "c-cedilla" -> <<"c", "U+0327">>
    [] OTHER           -> <<c>>

\* the combining marks U+0300..U+036F
IsCombiningMark(c) == c \in {"U+0301", "U+0303", "U+0327"}

normalizeFileName(fileName) ==
  LET nfd      == Flatten([k \in DOMAIN fileName |-> NFDChar(fileName[k])])
      stripped == SelectSeq(nfd, LAMBDA c : ~IsCombiningMark(c))
      dashed   == [k \in DOMAIN stripped |->
                     IF IsWordChar(stripped[k]) \/ stripped[k] \in {".", "-"}
                     THEN stripped[k] ELSE "-"]
  IN toLowerCase(dashed)

\* process.cwd(): the project root the server is started from
Cwd == <<"/", "app">>

\* __dirname of the compiled FileStorage module (src/infrastructure/storage
\* under the project root)
StorageDirname == Cwd \o <<"/", "src", "/", "infrastructure", "/", "storage">>

\* clock ticks in one calendar day
TicksPerDay == 1

\* String(n).padStart(2, "0")
padStart2(n) == IF n < 10 THEN <<"0", ToString(n)>> ELSE <<ToString(n)>>

\* the date folder YYYY-MM-DD of the local date at clock value t
dateFolder(t) ==
  <<"2025">> \o <<"-">> \o padStart2(1) \o <<"-">> \o padStart2(1 + (t \div TicksPerDay))

\* storage.destination: public/uploads/<date> under the working directory
destination(t) ==
  pathJoin(pathJoin(Cwd, <<"public", "/", "uploads">>), dateFolder(t))

\* uuidv4(): a random 36-character identifier, seen as its first 8
\* characters, a dash and the remaining characters
uuidv4Values ==
  { <<"h" \o ToString(h), "-", "rest">> : h \in 1..NumUid }

\* String.prototype.slice(0, 8) of a uuid
slice8(uuid) == SubSeq(uuid, 1, 1)

\* storage.filename: <timestamp>-<uuid prefix>-<normalized base><extension>
filename(originalname, timestamp, uuid) ==
  LET fileExt        == extname(originalname)
      baseName       == basename(originalname, fileExt)
      normalizedName == normalizeFileName(baseName)
      uniqueId       == slice8(uuid)
  IN <<ToString(timestamp)>> \o <<"-">> \o uniqueId \o <<"-">>
       \o normalizedName \o fileExt

(***************************************************************************)
(* FileStorage.                                                             *)
(***************************************************************************)
\* FileStorage.baseUploadPath
baseUploadPath == pathJoin(StorageDirname, <<"..", "/", "..", "/", "..", "/", "public", "/", "uploads">>)

getFullPath(uri) ==
  IF startsWith(uri, <<"/", "uploads", "/">>)
  THEN pathJoin(pathJoin(StorageDirname, <<"..", "/", "..", "/", "..", "/", "public">>), uri)
  ELSE pathJoin(baseUploadPath, uri)

\* the static extension table of getMimeType
mimeTypes ==
  { <<<<".", "h", "t", "m", "l">>, <<"text/html">>>>,
    <<<<".", "j", "s">>, <<"text/javascript">>>>,
    <<<<".", "c", "s", "s">>, <<"text/css">>>>,
    <<<<".", "j", "s", "o", "n">>, <<"application/json">>>>,
    <<<<".", "p", "n", "g">>, <<"image/png">>>>,
    <<<<".", "j", "p", "g">>, <<"image/jpeg">>>>,
    <<<<".", "j", "p", "e", "g">>, <<"image/jpeg">>>>,
    <<<<".", "g", "i", "f">>, <<"image/gif">>>>,
    <<<<".", "s", "v", "g">>, <<"image/svg+xml">>>>,
    <<<<".", "p", "d", "f">>, <<"application/pdf">>>>,
    <<<<".", "d", "o", "c">>, <<"application/msword">>>>,
    <<<<".", "d", "o", "c", "x">>,
      <<"application/vnd.openxmlformats-officedocument.wordprocessingml.document">>>>,
    <<<<".", "x", "l", "s">>, <<"application/vnd.ms-excel">>>>,
    <<<<".", "x", "l", "s", "x">>,
      <<"application/vnd.openxmlformats-officedocument.spreadsheetml.sheet">>>>,
    <<<<".", "p", "p", "t">>, <<"application/vnd.ms-powerpoint">>>>,
    <<<<".", "p", "p", "t", "x">>,
      <<"application/vnd.openxmlformats-officedocument.presentationml.presentation">>>>,
    <<<<".", "t", "x", "t">>, <<"text/plain">>>>,
    <<<<".", "z", "i", "p">>, <<"application/zip">>>>,
    <<<<".", "m", "p", "3">>, <<"audio/mpeg">>>>,
    <<<<".", "m", "p", "4">>, <<"video/mp4">>>>,
    <<<<".", "w", "a", "v">>, <<"audio/wav">>>>,
    <<<<".", "a", "v", "i">>, <<"video/x-msvideo">>>>,
    <<<<".", "m", "o", "v">>, <<"video/quicktime">>>>,
    <<<<".", "x", "m", "l">>, <<"application/xml">>>>,
    <<<<".", "c", "s", "v">>, <<"text/csv">>>> }

\* variant of getMimeType that looks the extension up as it is written;
\* the MIME inference C15 does not survive it
getMimeTypeAsWritten(filePath) ==
  LET hits == { e \in mimeTypes : e[1] = extname(filePath) }
  IN IF hits = {} THEN <<"application/octet-stream">>
     ELSE (CHOOSE e \in hits : TRUE)[2]

getMimeType(filePath) ==
  LET extension == toLowerCase(extname(filePath))
      hits      == { e \in mimeTypes : e[1] = extension }
  IN IF hits = {} THEN <<"application/octet-stream">>
     ELSE (CHOOSE e \in hits : TRUE)[2]

\* Array.from(buffer): the bytes as a list of numbers
bufferToArray(buffer) == [k \in DOMAIN buffer |-> buffer[k]]

\* SHA-256 of a buffer as a hex string.  The digest is idealised as
\* collision-free: the bytes are read as the digits of one number.
RECURSIVE DigestNumber(_)
DigestNumber(buffer) ==
  IF buffer = <<>> THEN 1
  ELSE (buffer[Len(buffer)] + 1) + 257 * DigestNumber(SubSeq(buffer, 1, Len(buffer) - 1))

\* variant of calculateHash that returns the empty string; the hash of
\* every registered artifact C30 relies on does not survive it
calculateHashEmpty(buffer) == <<>>

calculateHash(buffer) == <<ToString(DigestNumber(buffer))>>

(***************************************************************************)
(* Values exchanged with the client.  Message texts are written without     *)
(* their accents.                                                           *)
(***************************************************************************)
JUndefined == [t |-> "undefined", s |-> <<>>, a |-> <<>>]
JString(str) == [t |-> "string", s |-> str, a |-> <<>>]
JNumber(n) == [t |-> "number", s |-> <<ToString(n)>>, a |-> <<>>]
JArray(elems) == [t |-> "array", s |-> <<>>, a |-> elems]

\* JavaScript truthiness of a JSON value (the test !uris)
Truthy(j) ==
  CASE j.t = "undefined" -> FALSE
    [] j.t = "string"    -> j.s # <<>>
    [] j.t = "number"    -> j.s # <<"0">>
    [] OTHER             -> TRUE

\* Array.isArray
IsArray(j) == j.t = "array"

\* new ApiError(message, statusCode)
ApiError(message, statusCode) ==
  [name |-> "ApiError", message |-> message, statusCode |-> statusCode]

\* an error thrown by the file system (not an ApiError)
SystemError(message) ==
  [name |-> "Error", message |-> message, statusCode |-> 0]

NoError == [name |-> "", message |-> <<>>, statusCode |-> 0]

\* new multer.MulterError(code): the message multer gives the code
MulterError(code) ==
  [name |-> "MulterError",
   message |-> CASE code = "LIMIT_FILE_SIZE"  -> <<"File too large">>
                 [] code = "LIMIT_FILE_COUNT" -> <<"Too many files">>
                 [] OTHER                     -> <<"Unexpected field">>,
   statusCode |-> 0]

\* err.code of a MulterError
multerCode(err) ==
  CASE err.message = <<"File too large">> -> "LIMIT_FILE_SIZE"
    [] err.message = <<"Too many files">> -> "LIMIT_FILE_COUNT"
    [] OTHER                              -> "LIMIT_UNEXPECTED_FILE"

\* the response of a request: nothing sent yet
NoResponse == [sent |-> FALSE, status |-> 0, body |-> "", list |-> <<>>, error |-> NoError]

\* res.status(200).json(list)
JsonList(list) ==
  [sent |-> TRUE, status |-> 200, body |-> "list", list |-> list, error |-> NoError]

\* errorHandler: the response for an error passed to next(err)
errorHandler(err) ==
  IF err.name = "ApiError"
  THEN [sent |-> TRUE, status |-> err.statusCode, body |-> "error", list |-> <<>>,
        error |-> [name |-> "", message |-> err.message, statusCode |-> err.statusCode]]
  ELSE IF err.name = "MulterError"
  THEN [sent |-> TRUE, status |-> 400, body |-> "error", list |-> <<>>,
        error |-> [name |-> "",
                   message |-> IF err.message = <<"File too large">>
                               THEN <<"Arquivo excede o tamanho maximo permitido">>
                               ELSE IF err.message = <<"Too many files">>
                               THEN <<"Numero maximo de arquivos excedido">>
                               ELSE <<"Erro no upload de arquivo">>,
                   statusCode |-> 400]]
  ELSE [sent |-> TRUE, status |-> 500, body |-> "error", list |-> <<>>,
        error |-> [name |-> "", message |-> <<"Erro interno do servidor">>,
                   statusCode |-> 500]]

(***************************************************************************)
(* What clients send.                                                       *)
(***************************************************************************)
\* the file parts a client may put in a multipart upload: the declared
\* name, the declared content type and the bytes
ClientFiles ==
  { [originalname |-> <<"a", ".", "t", "x", "t">>, mimetype |-> <<"text/plain">>,
     content |-> <<104, 105>>],
    [originalname |-> <<"A", ".", "t", "x", "t">>, mimetype |-> <<"image/png">>,
     content |-> <<7>>] }

\* the multer limits (fileSize in bytes, files per request)
limits == [fileSize |-> MaxFileSize, files |-> MaxFilesPerRequest]

ALLOWED_MIME_TYPES ==
  { <<"image/jpeg">>, <<"image/png">>, <<"image/gif">>, <<"image/svg+xml">>,
    <<"application/pdf">>, <<"application/msword">>,
    <<"application/vnd.openxmlformats-officedocument.wordprocessingml.document">>,
    <<"application/vnd.ms-excel">>,
    <<"application/vnd.openxmlformats-officedocument.spreadsheetml.sheet">>,
    <<"application/vnd.ms-powerpoint">>,
    <<"application/vnd.openxmlformats-officedocument.presentationml.presentation">>,
    <<"text/plain">>, <<"text/csv">>, <<"application/zip">>,
    <<"application/x-rar-compressed">> }

\* file parts multer turns away: one byte too long, or of a type that is
\* not allowed
RefusedFiles ==
  { [originalname |-> <<"b", "i", "g", ".", "t", "x", "t">>, mimetype |-> <<"text/plain">>,
     content |-> [k \in 1..(limits.fileSize + 1) |-> 0]],
    [originalname |-> <<"x", ".", "s", "h">>, mimetype |-> <<"application/x-sh">>,
     content |-> <<35>>] }

\* URIs a client may ask for that no upload produced
UnknownUris ==
  { <<"/", "uploads", "/", "2025", "-", "0", "1", "-", "0", "1", "/", "ghost", ".", "t", "x", "t">> }

\* bytes the environment may leave in a stored file
TamperContents == { <<0>> }

(***************************************************************************)
(* State.                                                                   *)
(***************************************************************************)
VARIABLES
  env,       \* process.env.VALIDATE_FILE_TYPES the server runs with ("" when
             \* it is not set)
  now,       \* the clock: Date.now()
  disk,      \* the file system: path -> bytes of the file at that path
  files,     \* FileRepositoryImpl.files: uri -> File entity
  faults,    \* files altered or removed by the environment so far
  ioFaults,  \* reads the environment has made fail so far
  direct,    \* entities registered by a direct saveFile call so far
  dirty,     \* history: paths whose file was changed or removed after it
             \* was first written
  pc,        \* per request: the step of its middleware chain it is at
  route,     \* per request: the route it was sent to
  epoch,     \* per request, history: the number of disk writes when its
             \* handler looked the URIs up
  parts,     \* per request: the file parts the client has sent
  reqFiles,  \* per request: req.files, the files multer has stored
  body,      \* per request: req.body.uris
  idx,       \* per request: position of the per-item loop (1-based)
  found,     \* per request: the entities getFilesByUris returned
  buffer,    \* per request: the buffer getFile read for the current item
  results,   \* per request: the results list being built
  res,       \* per request: the HTTP response
  call       \* a function of the service applied on its own: its name, its
             \* arguments and, once applied, its result

vars == <<env, now, disk, files, faults, ioFaults, direct, dirty, pc, route, epoch,
          parts, reqFiles, body, idx, found, buffer, results, res, call>>

Reqs == 1..MaxReqs

\* the steps a request passes without yielding: express calls the next
\* middleware synchronously, up to the first awaited file operation
SyncSteps == {"checkFilesExist", "validateFileUpload", "uploadController",
              "validateLoadFilesRequest", "loadController"}

\* JavaScript runs one callback at a time, to completion: nothing else
\* runs while another request is inside a synchronous chain
MayRun(r) == \A q \in Reqs \ {r} : pc[q] \notin SyncSteps

\* nothing else runs (the environment included) during a synchronous chain
Quiescent == \A q \in Reqs : pc[q] \notin SyncSteps

\* a function with one more (or one replaced) entry
Put(f, k, v) == [x \in DOMAIN f \cup {k} |-> IF x = k THEN v ELSE f[x]]

\* a function without the entry of k
Drop(f, k) == [x \in DOMAIN f \ {k} |-> f[x]]

EmptyMap == [x \in {} |-> <<>>]

\* no buffer read yet
NoBuffer == <<-1>>

\* file parts received so far, over all requests
RECURSIVE PartsUpTo(_, _)
PartsUpTo(ps, n) == IF n = 0 THEN 0 ELSE Len(ps[n]) + PartsUpTo(ps, n - 1)

TotalParts == PartsUpTo(parts, MaxReqs)

\* changes of the disk so far, at least: parts stored or turned away,
\* altered files, removed files
DiskEpoch == TotalParts + faults

\* the environment may disturb the disk once more
MayFault == faults + ioFaults < MaxFaults

\* no function applied on its own
NoCall == [fn |-> "", path |-> <<>>, stem |-> <<>>, ext |-> <<>>, blob |-> <<>>,
           hash |-> <<>>, ioFail |-> FALSE, index |-> <<>>, file |-> <<>>, uris |-> <<>>,
           ret |-> <<>>]

Init ==
  /\ env = "true"
  /\ now = 0
  /\ disk = EmptyMap
  /\ files = EmptyMap
  /\ faults = 0
  /\ ioFaults = 0
  /\ direct = 0
  /\ dirty = {}
  /\ pc = [r \in Reqs |-> "idle"]
  /\ route = [r \in Reqs |-> ""]
  /\ epoch = [r \in Reqs |-> 0]
  /\ parts = [r \in Reqs |-> <<>>]
  /\ reqFiles = [r \in Reqs |-> <<>>]
  /\ body = [r \in Reqs |-> JUndefined]
  /\ idx = [r \in Reqs |-> 0]
  /\ found = [r \in Reqs |-> <<>>]
  /\ buffer = [r \in Reqs |-> NoBuffer]
  /\ results = [r \in Reqs |-> <<>>]
  /\ res = [r \in Reqs |-> NoResponse]
  /\ call = NoCall

(***************************************************************************)
(* File system reads (FileStorage).  ioFail: the read itself fails.         *)
(***************************************************************************)
\* variant of fileExists that finds every file; the answer to a missing
\* file C13 does not survive it
fileExistsAlways(d, filePath) == TRUE

\* FileStorage.fileExists: stat succeeds
fileExists(d, filePath) == filePath \in DOMAIN d

\* FileStorage.readFile: the buffer, or the ApiError it throws
readFile(d, filePath, ioFail) ==
  IF filePath \notin DOMAIN d
  THEN [ok |-> FALSE, buffer |-> NoBuffer,
        err |-> ApiError(<<"Arquivo nao encontrado: ">> \o basename(filePath, <<>>), 404)]
  ELSE IF ioFail
  THEN [ok |-> FALSE, buffer |-> NoBuffer,
        err |-> ApiError(<<"Erro ao ler arquivo: ">> \o SystemError(<<"EIO: i/o error, read">>).message, 500)]
  ELSE [ok |-> TRUE, buffer |-> d[filePath], err |-> NoError]

\* FileStorage.getFile, after the stat: the read, any failure of which is
\* rethrown as a 500
getFileRead(d, uri, ioFail) ==
  LET r == readFile(d, getFullPath(uri), ioFail)
  IN IF r.ok THEN r
     ELSE [ok |-> FALSE, buffer |-> NoBuffer,
           err |-> ApiError(<<"Erro ao ler arquivo: ">> \o uri, 500)]

\* variant of verifyFileIntegrity that never compares the hashes; the
\* integrity enforcement C3 does not survive it
verifyNothing(d, filePath, expectedHash, ioFail) == readFile(d, filePath, ioFail).ok

\* variant of verifyFileIntegrity that looks at the expected hash before it
\* reads the file; the result for unreadable files C20 does not survive it
verifyHashFirst(d, filePath, expectedHash, ioFail) ==
  IF expectedHash = <<>> THEN TRUE
  ELSE LET r == readFile(d, filePath, ioFail)
       IN r.ok /\ calculateHash(r.buffer) = expectedHash

\* FileStorage.verifyFileIntegrity
verifyFileIntegrity(d, filePath, expectedHash, ioFail) ==
  LET r == readFile(d, filePath, ioFail)
  IN IF ~r.ok THEN FALSE
     ELSE IF expectedHash = <<>> THEN TRUE
     ELSE calculateHash(r.buffer) = expectedHash

(***************************************************************************)
(* Repository (FileRepositoryImpl) and domain service.                      *)
(***************************************************************************)
\* the File entity; hash is <<>> when none is given.  Its id, a fresh
\* uuid that nothing in the service reads, is left out.
File(name, fname, path, uri, mimeType, size, hash) ==
  [name |-> name, filename |-> fname, path |-> path, uri |-> uri,
   mimeType |-> mimeType, size |-> size, hash |-> hash]

\* the null a lookup returns
NullFile == File(<<>>, <<>>, <<>>, <<>>, <<>>, -1, <<>>)

\* variant of saveFile that stores nothing; the partial failure C10 does
\* not survive it
saveNothing(m, file) == m

\* variant of saveFile that writes back a copy of the map taken before
\* other inserts; the index under concurrent inserts C21 does not survive it
saveFileLosingOthers(m, file) == Put(EmptyMap, file.uri, file)

\* variant of saveFile that keeps the entry a URI already has; the
\* replacement of entries C22 does not survive it
saveFileKeepFirst(m, file) == IF file.uri \in DOMAIN m THEN m ELSE Put(m, file.uri, file)

\* FileRepositoryImpl.saveFile: files.set(file.uri, file)
saveFile(m, file) == Put(m, file.uri, file)

\* variant of getFileByUri that makes up an entity for a URI it does not
\* hold; the answer to an unknown URI C14 does not survive it
getFileByUriOrBlank(m, uri) ==
  IF uri \in DOMAIN m THEN m[uri]
  ELSE [name |-> <<>>, filename |-> <<>>, path |-> <<>>, uri |-> uri,
        mimeType |-> <<>>, size |-> 0, hash |-> <<>>]

\* FileRepositoryImpl.getFileByUri: files.get(uri) || null
getFileByUri(m, uri) == IF uri \in DOMAIN m THEN m[uri] ELSE NullFile

\* variant of getFilesByUris that leaves out the URIs it does not hold; the
\* positions of the batch lookup C23 do not survive it
getFilesByUrisFound(m, uris) ==
  LET all == [k \in DOMAIN uris |-> getFileByUri(m, uris[k])]
  IN SelectSeq(all, LAMBDA f : f # NullFile)

\* FileRepositoryImpl.getFilesByUris: uris.map(...)
getFilesByUris(m, uris) == [k \in DOMAIN uris |-> getFileByUri(m, uris[k])]

(***************************************************************************)
(* Environment: the clock and whatever else touches the upload tree.        *)
(***************************************************************************)
Tick ==
  /\ Quiescent
  /\ now < MaxClock
  /\ now' = now + 1
  /\ UNCHANGED <<env, call, disk, files, faults, ioFaults, direct, dirty, pc, route, epoch,
                 parts, reqFiles, body, idx, found, buffer, results, res>>

\* the bytes of a stored file are altered on disk, up to cap disturbances
TamperUpTo(p, b, cap) ==
  /\ Quiescent
  /\ faults + ioFaults < cap
  /\ p \in DOMAIN disk
  /\ disk[p] # b
  /\ disk' = Put(disk, p, b)
  /\ dirty' = dirty \cup {p}
  /\ faults' = faults + 1
  /\ UNCHANGED <<env, call, now, files, ioFaults, direct, pc, route, epoch, parts, reqFiles,
                 body, idx, found, buffer, results, res>>

Tamper(p, b) == TamperUpTo(p, b, MaxFaults)

\* a stored file is removed from disk
Remove(p) ==
  /\ Quiescent
  /\ MayFault
  /\ p \in DOMAIN disk
  /\ disk' = Drop(disk, p)
  /\ dirty' = dirty \cup {p}
  /\ faults' = faults + 1
  /\ UNCHANGED <<env, call, now, files, ioFaults, direct, pc, route, epoch, parts, reqFiles,
                 body, idx, found, buffer, results, res>>

(***************************************************************************)
(* POST /api/add-files.                                                     *)
(***************************************************************************)
\* requests are numbered in the order they arrive
MayArrive(r) ==
  /\ pc[r] = "idle"
  /\ IF r = 1 THEN TRUE ELSE pc[r - 1] # "idle"
  /\ MayRun(r)

\* variant of Fail that answers and lets the request go on; the fail-fast
\* propagation C11 does not survive it
FailAndGoOn(r, err) ==
  /\ res' = [res EXCEPT ![r] = errorHandler(err)]
  /\ pc' = pc

\* variant of Fail that ends the request without a response; the one
\* response per request C28 does not survive it
FailSilently(r, err) ==
  /\ res' = res
  /\ pc' = [pc EXCEPT ![r] = "sent"]

\* next(err): the response is sent by errorHandler and the request ends
Fail(r, err) ==
  /\ res' = [res EXCEPT ![r] = errorHandler(err)]
  /\ pc' = [pc EXCEPT ![r] = "sent"]

\* res.status(200).json(list): the request ends
Succeed(r, list) ==
  /\ res' = [res EXCEPT ![r] = JsonList(list)]
  /\ pc' = [pc EXCEPT ![r] = "sent"]

\* a multipart request reaches the upload route
ArriveUpload(r) ==
  /\ MayArrive(r)
  /\ route' = [route EXCEPT ![r] = "add-files"]
  /\ pc' = [pc EXCEPT ![r] = "multer"]
  /\ UNCHANGED <<env, call, now, disk, files, faults, ioFaults, direct, dirty, epoch, parts,
                 reqFiles, body, idx, found, buffer, results, res>>

\* the file object multer puts in req.files for a stored part
MulterFile(part, t, uuid) ==
  LET dest  == destination(t)
      fname == filename(part.originalname, t, uuid)
  IN [fieldname |-> "files", originalname |-> part.originalname,
      mimetype |-> part.mimetype, destination |-> dest, filename |-> fname,
      path |-> pathJoin(dest, fname), size |-> Len(part.content)]

\* busboy's filesLimit: one file more than limits.files
exceedsFileCount(stored) == Len(stored) >= limits.files

\* variant of exceedsFileSize that lets every length through; the limits
\* at the boundary C18 do not survive it
exceedsFileSizeNever(part) == FALSE

\* busboy's file limit: more bytes than limits.fileSize
exceedsFileSize(part) == Len(part.content) > limits.fileSize

\* process.env.VALIDATE_FILE_TYPES === "true"
ValidateFileTypes == env = "true"

\* variant of fileFilter that checks the type whatever the toggle says; the
\* toggle of the allow-list C25 does not survive it
fileFilterAlways(part) == part.mimetype \in ALLOWED_MIME_TYPES

\* fileFilter: does it accept the part
fileFilter(part) ==
  IF ~ValidateFileTypes THEN TRUE ELSE part.mimetype \in ALLOWED_MIME_TYPES

\* the error multer ends the request with when the part arrives, NoError
\* when it stores the part
multerError(stored, part) ==
  IF exceedsFileCount(stored) THEN MulterError("LIMIT_FILE_COUNT")
  ELSE IF ~fileFilter(part)
  THEN ApiError(<<"Tipo de arquivo nao permitido: ">> \o part.mimetype, 400)
  ELSE IF exceedsFileSize(part) THEN MulterError("LIMIT_FILE_SIZE")
  ELSE NoError

\* res.status(400).json({error: text})
JsonErrorText(text) ==
  [sent |-> TRUE, status |-> 400, body |-> "errorText", list |-> <<>>,
   error |-> [name |-> "", message |-> text, statusCode |-> 0]]

\* handleMulterErrors: the response for an error of upload.array
handleMulterErrors(err) ==
  IF err.name = "MulterError"
  THEN IF multerCode(err) = "LIMIT_FILE_SIZE"
       THEN JsonErrorText(<<"Tamanho do arquivo excede o limite de ",
                            ToString(limits.fileSize), "/(1024*1024)", "MB">>)
       ELSE IF multerCode(err) = "LIMIT_FILE_COUNT"
       THEN JsonErrorText(<<"Numero maximo de arquivos excedido. Limite: ",
                            ToString(limits.files), " arquivos">>)
       ELSE JsonErrorText(<<"Erro no upload: ">> \o err.message)
  ELSE errorHandler(err)

\* the paths of a list of multer files
PathsOf(stored) == { stored[k].path : k \in DOMAIN stored }

\* upload.array("files"), a file part multer turns away: it removes the
\* files it has stored for the request (and the cut-off file of a part
\* that is too long) and the wrapper hands the error to handleMulterErrors
MulterAbort(r, part, uuid) ==
  /\ pc[r] = "multer"
  /\ MayRun(r)
  /\ LET err     == multerError(reqFiles[r], part)
         cutOff  == IF err = MulterError("LIMIT_FILE_SIZE")
                    THEN {MulterFile(part, now, uuid).path} ELSE {}
         removed == PathsOf(reqFiles[r]) \cup cutOff
     IN /\ err # NoError
        /\ disk' = [p \in DOMAIN disk \ removed |-> disk[p]]
        /\ dirty' = dirty \cup (removed \cap DOMAIN disk)
        /\ res' = [res EXCEPT ![r] = handleMulterErrors(err)]
  /\ pc' = [pc EXCEPT ![r] = "sent"]
  /\ parts' = [parts EXCEPT ![r] = Append(@, part)]
  /\ UNCHANGED <<env, call, now, files, faults, ioFaults, direct, route, epoch, reqFiles,
                 body, idx, found, buffer, results>>

\* upload.array("files"), one file part: the disk storage names the file
\* and writes the part's bytes to it
MulterStore(r, part, uuid, cap) ==
  /\ pc[r] = "multer"
  /\ MayRun(r)
  /\ TotalParts < cap
  /\ multerError(reqFiles[r], part) = NoError
  /\ LET f == MulterFile(part, now, uuid) IN
       /\ disk' = Put(disk, f.path, part.content)
       /\ dirty' = IF f.path \in DOMAIN disk THEN dirty \cup {f.path} ELSE dirty
       /\ reqFiles' = [reqFiles EXCEPT ![r] = Append(@, f)]
  /\ parts' = [parts EXCEPT ![r] = Append(@, part)]
  /\ UNCHANGED <<env, call, now, files, faults, ioFaults, direct, pc, route, epoch, body,
                 idx, found, buffer, results, res>>

MulterPart(r, part, uuid) == MulterStore(r, part, uuid, MaxParts)

\* upload.array("files"): the multipart body ends and the wrapper calls next()
MulterDone(r) ==
  /\ pc[r] = "multer"
  /\ MayRun(r)
  /\ pc' = [pc EXCEPT ![r] = "checkFilesExist"]
  /\ UNCHANGED <<env, call, now, disk, files, faults, ioFaults, direct, dirty, route, epoch,
                 parts, reqFiles, body, idx, found, buffer, results, res>>

\* variant of NoFiles that lets every request through; the rejection of
\* empty batches C7 does not survive it
NoFilesNever(fs) == FALSE

\* !req.files || (Array.isArray(req.files) && req.files.length === 0)
NoFiles(fs) == fs = <<>>

checkFilesExist(r) ==
  /\ pc[r] = "checkFilesExist"
  /\ IF NoFiles(reqFiles[r])
     THEN Fail(r, ApiError(<<"Arquivo nao informado">>, 400))
     ELSE /\ pc' = [pc EXCEPT ![r] = "validateFileUpload"]
          /\ UNCHANGED res
  /\ UNCHANGED <<env, call, now, disk, files, faults, ioFaults, direct, dirty, route, epoch,
                 parts, reqFiles, body, idx, found, buffer, results>>

validateFileUpload(r) ==
  /\ pc[r] = "validateFileUpload"
  /\ IF NoFiles(reqFiles[r])
     THEN Fail(r, ApiError(<<"Arquivo nao informado">>, 400))
     ELSE /\ pc' = [pc EXCEPT ![r] = "uploadController"]
          /\ UNCHANGED res
  /\ UNCHANGED <<env, call, now, disk, files, faults, ioFaults, direct, dirty, route, epoch,
                 parts, reqFiles, body, idx, found, buffer, results>>

\* FileController.uploadFiles up to the first read of uploadFiles (a list
\* without files is answered at once)
ControllerUpload(r) ==
  /\ pc[r] = "uploadController"
  /\ IF NoFiles(reqFiles[r])
     THEN /\ Fail(r, ApiError(<<"Arquivo nao informado">>, 400))
          /\ UNCHANGED <<idx, results>>
     ELSE /\ results' = [results EXCEPT ![r] = <<>>]
          /\ IF Len(reqFiles[r]) = 0
             THEN /\ Succeed(r, <<>>)
                  /\ UNCHANGED idx
             ELSE /\ pc' = [pc EXCEPT ![r] = "uploadFiles"]
                  /\ idx' = [idx EXCEPT ![r] = 1]
                  /\ UNCHANGED res
  /\ UNCHANGED <<env, call, now, disk, files, faults, ioFaults, direct, dirty, route, epoch,
                 parts, reqFiles, body, found, buffer>>

\* the URI of a stored file: its path without the public directory
uriOf(filePath) ==
  replaceBackslashes(replaceFirst(filePath, pathJoin(Cwd, <<"public">>)))

\* the entity uploadFiles builds for a stored file
uploadEntity(file, hash) ==
  File(file.originalname, file.filename, file.path, uriOf(file.path),
       file.mimetype, file.size, hash)

\* variant of uploadEntry that returns the disk path where the URI goes;
\* the acknowledged URIs of C29 do not survive it
uploadEntryWithPath(file) ==
  [type |-> file.mimetype, uri |-> file.path, name |-> file.originalname]

\* the entry uploadFiles returns for a stored file
uploadEntry(file) ==
  [type |-> file.mimetype, uri |-> uriOf(file.path), name |-> file.originalname]

\* variant of pushUploadEntry that puts the entry first; the order of
\* ingestion C5 does not survive it
unshiftUploadEntry(list, entry) == <<entry>> \o list

\* results.push(entry) of uploadFiles
pushUploadEntry(list, entry) == Append(list, entry)

\* FileAppService.uploadFiles, one pass of its loop: read the stored file,
\* hash it, register the entity, add the entry; after the last file the
\* controller answers 200 with the list.  A failing read ends the request
\* through next(error).
UploadItem(r, ioFail) ==
  /\ pc[r] = "uploadFiles"
  /\ MayRun(r)
  /\ ioFail => MayFault /\ reqFiles[r][idx[r]].path \in DOMAIN disk
  /\ LET file == reqFiles[r][idx[r]]
         rd   == readFile(disk, file.path, ioFail)
     IN IF ~rd.ok
        THEN /\ Fail(r, rd.err)
             /\ UNCHANGED <<files, results, idx>>
        ELSE /\ files' = saveFile(files, uploadEntity(file, calculateHash(rd.buffer)))
             /\ results' = [results EXCEPT ![r] = pushUploadEntry(@, uploadEntry(file))]
             /\ IF idx[r] < Len(reqFiles[r])
                THEN /\ idx' = [idx EXCEPT ![r] = @ + 1]
                     /\ UNCHANGED <<pc, res>>
                ELSE /\ Succeed(r, results'[r])
                     /\ UNCHANGED idx
  /\ ioFaults' = IF ioFail THEN ioFaults + 1 ELSE ioFaults
  /\ UNCHANGED <<env, call, now, disk, faults, direct, dirty, route, epoch, parts, reqFiles,
                 body, found, buffer>>

(***************************************************************************)
(* POST /api/load-files.                                                    *)
(***************************************************************************)
\* sequences over S of length lo..hi
SeqsOf(S, lo, hi) == UNION { [1..n -> S] : n \in lo..hi }

\* what a client may put in an element of uris: a URI the repository
\* holds, a URI it does not hold, or something that is not a string
UriElements == { JString(u) : u \in DOMAIN files \cup UnknownUris } \cup { JNumber(7) }

\* what a client may send as req.body.uris
LoadBodies ==
  { JUndefined, JString(<<"ghost">>), JArray(<<>>) }
    \cup { JArray(a) : a \in SeqsOf(UriElements, 1, MaxUris) }

\* strings a client may send that no upload registered: the URI of a file
\* that is on disk without an entry in the index, and a string that leaves
\* the upload tree
OutsideUris == { <<"/", "uploads", "/", "..", "/", "..", "/", "package", ".", "j", "s", "o", "n">> }

StrayUris == { uriOf(p) : p \in DOMAIN disk } \cup OutsideUris

\* uris arrays of strings of any kind, registered or not
AnyBodies ==
  { JArray(a) : a \in SeqsOf({ JString(u) : u \in DOMAIN files \cup StrayUris }, 1, MaxUris) }

\* a JSON request reaches the load route
ArriveLoad(r, b) ==
  /\ MayArrive(r)
  /\ route' = [route EXCEPT ![r] = "load-files"]
  /\ body' = [body EXCEPT ![r] = b]
  /\ pc' = [pc EXCEPT ![r] = "validateLoadFilesRequest"]
  /\ UNCHANGED <<env, call, now, disk, files, faults, ioFaults, direct, dirty, epoch, parts,
                 reqFiles, idx, found, buffer, results, res>>

\* variant of validateLoadFilesError that does not look at the elements;
\* the input validation C8 does not survive it
validateShapeOnly(uris) ==
  IF ~Truthy(uris) THEN ApiError(<<"URIs nao informadas">>, 400)
  ELSE IF ~IsArray(uris) THEN ApiError(<<"URIs devem ser um array">>, 400)
  ELSE IF Len(uris.a) = 0 THEN ApiError(<<"Lista de URIs esta vazia">>, 400)
  ELSE NoError

\* the error validateLoadFilesRequest passes to next, NoError when it
\* passes the request on
validateLoadFilesError(uris) ==
  IF ~Truthy(uris) THEN ApiError(<<"URIs nao informadas">>, 400)
  ELSE IF ~IsArray(uris) THEN ApiError(<<"URIs devem ser um array">>, 400)
  ELSE IF Len(uris.a) = 0 THEN ApiError(<<"Lista de URIs esta vazia">>, 400)
  ELSE IF \E k \in DOMAIN uris.a : uris.a[k].t # "string"
  THEN ApiError(<<"Todas as URIs devem ser strings">>, 400)
  ELSE NoError

validateLoadFilesRequest(r) ==
  /\ pc[r] = "validateLoadFilesRequest"
  /\ LET err == validateLoadFilesError(body[r])
     IN IF err # NoError
        THEN Fail(r, err)
        ELSE /\ pc' = [pc EXCEPT ![r] = "loadController"]
             /\ UNCHANGED res
  /\ UNCHANGED <<env, call, now, disk, files, faults, ioFaults, direct, dirty, route, epoch,
                 parts, reqFiles, body, idx, found, buffer, results>>

\* the check FileController.loadFiles makes itself
controllerLoadRejects(uris) == ~Truthy(uris) \/ ~IsArray(uris) \/ Len(uris.a) = 0

\* variant of missingFiles that looks at the first entity only; the
\* all-or-nothing retrieval C2 does not survive it
missingFirstOnly(fs) == fs # <<>> /\ fs[1] = NullFile

\* variant of missingFiles that never finds a null; the gate of the index
\* before the reads C27 does not survive it
missingFilesNever(fs) == FALSE

\* loadFiles: files.some((file) => file === null)
missingFiles(fs) == \E k \in DOMAIN fs : fs[k] = NullFile

\* the keys a uris array is looked up by
LookupKeys(uris) == [k \in DOMAIN uris.a |-> uris.a[k].s]

\* FileController.loadFiles up to the first stat of loadFiles: the lookup
\* of all URIs and the check that none is missing
ControllerLoad(r) ==
  /\ pc[r] = "loadController"
  /\ IF controllerLoadRejects(body[r])
     THEN /\ Fail(r, ApiError(<<"URIs nao informadas ou invalidas">>, 400))
          /\ UNCHANGED <<idx, found, results, epoch>>
     ELSE LET fs == getFilesByUris(files, LookupKeys(body[r]))
          IN /\ found' = [found EXCEPT ![r] = fs]
             /\ epoch' = [epoch EXCEPT ![r] = DiskEpoch]
             /\ results' = [results EXCEPT ![r] = <<>>]
             /\ IF missingFiles(fs)
                THEN /\ Fail(r, ApiError(<<"Um ou mais arquivos nao foram encontrados">>, 400))
                     /\ UNCHANGED idx
                ELSE IF Len(fs) = 0
                THEN /\ Succeed(r, <<>>)
                     /\ UNCHANGED idx
                ELSE /\ pc' = [pc EXCEPT ![r] = "getFileStat"]
                     /\ idx' = [idx EXCEPT ![r] = 1]
                     /\ UNCHANGED res
  /\ UNCHANGED <<env, call, now, disk, files, faults, ioFaults, direct, dirty, route, parts,
                 reqFiles, body, buffer>>

\* variant of LoadStat that takes the file off the disk when it finds it;
\* the read-only retrieval C24 does not survive it
LoadStatTaking(r) ==
  /\ pc[r] = "getFileStat"
  /\ MayRun(r)
  /\ fileExists(disk, getFullPath(found[r][idx[r]].uri))
  /\ disk' = Drop(disk, getFullPath(found[r][idx[r]].uri))
  /\ pc' = [pc EXCEPT ![r] = "getFileRead"]
  /\ UNCHANGED <<env, call, now, files, faults, ioFaults, direct, dirty, route, epoch,
                 parts, reqFiles, body, idx, found, buffer, results, res>>

\* getFile, first half: the stat of the file the entity's URI resolves to
LoadStat(r) ==
  /\ pc[r] = "getFileStat"
  /\ MayRun(r)
  /\ LET file == found[r][idx[r]]
     IN IF ~fileExists(disk, getFullPath(file.uri))
        THEN Fail(r, ApiError(<<"Arquivo nao encontrado: ">> \o file.uri, 404))
        ELSE /\ pc' = [pc EXCEPT ![r] = "getFileRead"]
             /\ UNCHANGED res
  /\ UNCHANGED <<env, call, now, disk, files, faults, ioFaults, direct, dirty, route, epoch,
                 parts, reqFiles, body, idx, found, buffer, results>>

\* variant of loadType that always goes by the extension of the stored
\* file; the round trip C1 does not survive it
loadTypeByExtension(file, filePath) == getMimeType(filePath)

\* the MIME type loadFiles reports: the stored one, else by extension
loadType(file, filePath) ==
  IF file.mimeType # <<>> THEN file.mimeType ELSE getMimeType(filePath)

\* the entry loadFiles returns for a file
loadEntry(file, filePath, buf) ==
  [buffer |-> [type |-> "Buffer", data |-> bufferToArray(buf)],
   type |-> loadType(file, filePath)]

\* variant of pushLoadEntry that puts the entry first; the order of
\* retrieval C6 does not survive it
unshiftLoadEntry(list, entry) == <<entry>> \o list

\* results.push(entry) of loadFiles
pushLoadEntry(list, entry) == Append(list, entry)

\* the entry of the current item is added; after the last item the
\* controller answers 200 with the list
AddLoadEntry(r, buf) ==
  LET file == found[r][idx[r]]
  IN /\ results' = [results EXCEPT ![r] =
                      pushLoadEntry(@, loadEntry(file, getFullPath(file.uri), buf))]
     /\ IF idx[r] < Len(found[r])
        THEN /\ idx' = [idx EXCEPT ![r] = @ + 1]
             /\ pc' = [pc EXCEPT ![r] = "getFileStat"]
             /\ UNCHANGED res
        ELSE /\ Succeed(r, results'[r])
             /\ UNCHANGED idx

\* getFile, second half: the read.  An entity without hash is not verified
\* and its entry is added at once.
LoadRead(r, ioFail) ==
  /\ pc[r] = "getFileRead"
  /\ MayRun(r)
  /\ LET file == found[r][idx[r]]
         rd   == getFileRead(disk, file.uri, ioFail)
     IN /\ ioFail => MayFault /\ getFullPath(file.uri) \in DOMAIN disk
        /\ IF ~rd.ok
           THEN /\ Fail(r, rd.err)
                /\ UNCHANGED <<buffer, results, idx>>
           ELSE IF file.hash # <<>>
           THEN /\ buffer' = [buffer EXCEPT ![r] = rd.buffer]
                /\ pc' = [pc EXCEPT ![r] = "verifyFileIntegrity"]
                /\ UNCHANGED <<results, idx, res>>
           ELSE /\ AddLoadEntry(r, rd.buffer)
                /\ UNCHANGED buffer
  /\ ioFaults' = IF ioFail THEN ioFaults + 1 ELSE ioFaults
  /\ UNCHANGED <<env, call, now, disk, files, faults, direct, dirty, route, epoch, parts,
                 reqFiles, body, found>>

\* verifyFileIntegrity reads the file again and compares its hash with the
\* entity's; on a mismatch the request fails, else the entry is added
LoadVerify(r, ioFail) ==
  /\ pc[r] = "verifyFileIntegrity"
  /\ MayRun(r)
  /\ LET file == found[r][idx[r]]
         filePath == getFullPath(file.uri)
     IN /\ ioFail => MayFault /\ filePath \in DOMAIN disk
        /\ IF ~verifyFileIntegrity(disk, filePath, file.hash, ioFail)
           THEN /\ Fail(r, ApiError(<<"Falha na verificacao de integridade do arquivo: ">>
                                      \o file.uri, 400))
                /\ UNCHANGED <<results, idx>>
           ELSE AddLoadEntry(r, buffer[r])
  /\ ioFaults' = IF ioFail THEN ioFaults + 1 ELSE ioFaults
  /\ UNCHANGED <<env, call, now, disk, files, faults, direct, dirty, route, epoch, parts,
                 reqFiles, body, found, buffer>>

(***************************************************************************)
(* A caller of the domain service other than the upload route.              *)
(***************************************************************************)
\* an entity for the stored file at path p, built without a hash and
\* without a MIME type
bareEntity(p) ==
  File(LastSegment(p), LastSegment(p), p, uriOf(p), <<>>, Len(disk[p]), <<>>)

\* FileService.saveFile called with an entity that carries no hash
SaveFileDirect(p) ==
  /\ Quiescent
  /\ direct < MaxDirect
  /\ p \in DOMAIN disk
  /\ files' = saveFile(files, bareEntity(p))
  /\ direct' = direct + 1
  /\ UNCHANGED <<env, call, now, disk, faults, ioFaults, dirty, pc, route, epoch, parts,
                 reqFiles, body, idx, found, buffer, results, res>>

(***************************************************************************)
(* The service.                                                             *)
(***************************************************************************)
Next ==
  \/ Tick
  \/ \E p \in DOMAIN disk, b \in TamperContents : Tamper(p, b)
  \/ \E p \in DOMAIN disk : Remove(p)
  \/ \E r \in Reqs : ArriveUpload(r)
  \/ \E r \in Reqs, part \in ClientFiles \cup RefusedFiles, uuid \in uuidv4Values :
       MulterPart(r, part, uuid)
  \/ \E r \in Reqs, part \in ClientFiles \cup RefusedFiles, uuid \in uuidv4Values :
       MulterAbort(r, part, uuid)
  \/ \E r \in Reqs : MulterDone(r)
  \/ \E r \in Reqs : checkFilesExist(r)
  \/ \E r \in Reqs : validateFileUpload(r)
  \/ \E r \in Reqs : ControllerUpload(r)
  \/ \E r \in Reqs, ioFail \in BOOLEAN : UploadItem(r, ioFail)
  \/ \E r \in Reqs, b \in LoadBodies : ArriveLoad(r, b)
  \/ \E r \in Reqs : validateLoadFilesRequest(r)
  \/ \E r \in Reqs : ControllerLoad(r)
  \/ \E r \in Reqs : LoadStat(r)
  \/ \E r \in Reqs, ioFail \in BOOLEAN : LoadRead(r, ioFail)
  \/ \E r \in Reqs, ioFail \in BOOLEAN : LoadVerify(r, ioFail)

\* the service behind its two routes
Spec == Init /\ [][Next]_vars

\* the service, with the domain service also called directly
NextSvc ==
  \/ Next
  \/ \E p \in DOMAIN disk : SaveFileDirect(p)

SpecSvc == Init /\ [][NextSvc]_vars

\* the service with an undisturbed disk and every read succeeding, and
\* room for an upload of two files next to another request
NextIdx ==
  \/ Tick
  \/ \E r \in Reqs : ArriveUpload(r)
  \/ \E r \in Reqs, part \in ClientFiles, uuid \in uuidv4Values :
       MulterStore(r, part, uuid, MaxPartsIdx)
  \/ \E r \in Reqs : MulterDone(r)
  \/ \E r \in Reqs : checkFilesExist(r)
  \/ \E r \in Reqs : validateFileUpload(r)
  \/ \E r \in Reqs : ControllerUpload(r)
  \/ \E r \in Reqs : UploadItem(r, FALSE)
  \/ \E r \in Reqs, b \in LoadBodies \cup AnyBodies : ArriveLoad(r, b)
  \/ \E r \in Reqs : validateLoadFilesRequest(r)
  \/ \E r \in Reqs : ControllerLoad(r)
  \/ \E r \in Reqs : LoadStat(r)
  \/ \E r \in Reqs : LoadRead(r, FALSE)
  \/ \E r \in Reqs : LoadVerify(r, FALSE)

SpecIdx == Init /\ [][NextIdx]_vars

\* the routes and the messages of their rate limiters
Routes == {"add-files", "load-files"}

limiterMessage(rt) ==
  IF rt = "add-files"
  THEN <<"Muitas requisicoes de upload deste IP, tente novamente apos 15 minutos">>
  ELSE <<"Muitas requisicoes de download deste IP, tente novamente apos 15 minutos">>

\* res.status(429).send(message)
SendText(status, text) ==
  [sent |-> TRUE, status |-> status, body |-> "text", list |-> <<>>,
   error |-> [name |-> "", message |-> text, statusCode |-> 0]]

\* uploadLimiter / downloadLimiter: a request over the limit of its window
\* is answered 429 and goes no further
RateLimited(r, rt) ==
  /\ MayArrive(r)
  /\ route' = [route EXCEPT ![r] = rt]
  /\ res' = [res EXCEPT ![r] = SendText(429, limiterMessage(rt))]
  /\ pc' = [pc EXCEPT ![r] = "sent"]
  /\ UNCHANGED <<env, call, now, disk, files, faults, ioFaults, direct, dirty, epoch,
                 parts, reqFiles, body, idx, found, buffer, results>>

\* the steps of request r after its arrival: what the event loop runs for
\* it once the client has sent a part or the end of the body, or a file
\* operation has completed
RequestStep(r) ==
  \/ \E part \in ClientFiles \cup RefusedFiles, uuid \in uuidv4Values :
       MulterPart(r, part, uuid)
  \/ \E part \in ClientFiles \cup RefusedFiles, uuid \in uuidv4Values :
       MulterAbort(r, part, uuid)
  \/ MulterDone(r)
  \/ checkFilesExist(r)
  \/ validateFileUpload(r)
  \/ ControllerUpload(r)
  \/ \E ioFail \in BOOLEAN : UploadItem(r, ioFail)
  \/ validateLoadFilesRequest(r)
  \/ ControllerLoad(r)
  \/ LoadStat(r)
  \/ \E ioFail \in BOOLEAN : LoadRead(r, ioFail)
  \/ \E ioFail \in BOOLEAN : LoadVerify(r, ioFail)

\* the service behind its rate limiters, on a disk nothing else touches
NextLive ==
  \/ \E r \in Reqs, rt \in Routes : RateLimited(r, rt)
  \/ \E r \in Reqs : ArriveUpload(r)
  \/ \E r \in Reqs, b \in LoadBodies : ArriveLoad(r, b)
  \/ \E r \in Reqs : RequestStep(r)

\* the steps of request r the event loop runs by itself: the end of the
\* request body and the synchronous middlewares
ChainStep(r) ==
  \/ MulterDone(r)
  \/ checkFilesExist(r)
  \/ validateFileUpload(r)
  \/ ControllerUpload(r)
  \/ validateLoadFilesRequest(r)
  \/ ControllerLoad(r)

\* the steps of request r that complete a file operation it awaits
FileSteps == {"uploadFiles", "getFileStat", "getFileRead", "verifyFileIntegrity"}

FileStep(r) ==
  \/ \E ioFail \in BOOLEAN : UploadItem(r, ioFail)
  \/ LoadStat(r)
  \/ \E ioFail \in BOOLEAN : LoadRead(r, ioFail)
  \/ \E ioFail \in BOOLEAN : LoadVerify(r, ioFail)

\* request r awaits a file operation and no synchronous chain is running:
\* the states in which FileStep(r) is enabled
AwaitsFile(r) == pc[r] \in FileSteps /\ MayRun(r)

\* every client finishes its request body and the event loop runs every
\* callback that is ready (weak fairness of ChainStep); every file
\* operation completes (weak fairness of FileStep, written out with the
\* states in which it is enabled)
SpecLive ==
  /\ Init /\ [][NextLive]_vars
  /\ \A r \in Reqs : WF_vars(ChainStep(r))
  /\ \A r \in Reqs : <>[]AwaitsFile(r) => []<><<FileStep(r)>>_vars

\* bytes a writer may leave in a stored file: foreign bytes or the bytes
\* of a client's file
RewriteContents == TamperContents \cup { part.content : part \in ClientFiles }

\* one upload and one load while another process rewrites the stored file,
\* every read succeeding
NextRace ==
  \/ \E p \in DOMAIN disk, b \in RewriteContents : TamperUpTo(p, b, MaxRewrites)
  \/ \E r \in Reqs : ArriveUpload(r)
  \/ \E r \in Reqs, part \in ClientFiles, uuid \in uuidv4Values :
       MulterStore(r, part, uuid, MaxPartsRace)
  \/ \E r \in Reqs : MulterDone(r)
  \/ \E r \in Reqs : checkFilesExist(r)
  \/ \E r \in Reqs : validateFileUpload(r)
  \/ \E r \in Reqs : ControllerUpload(r)
  \/ \E r \in Reqs : UploadItem(r, FALSE)
  \/ \E r \in Reqs, b \in LoadBodies : ArriveLoad(r, b)
  \/ \E r \in Reqs : validateLoadFilesRequest(r)
  \/ \E r \in Reqs : ControllerLoad(r)
  \/ \E r \in Reqs : LoadStat(r)
  \/ \E r \in Reqs : LoadRead(r, FALSE)
  \/ \E r \in Reqs : LoadVerify(r, FALSE)

SpecRace == Init /\ [][NextRace]_vars

\* values VALIDATE_FILE_TYPES may have when the server starts ("" when it
\* is not set)
ToggleValues == { "true", "false", "TRUE", "1", "" }

\* the server starts with any value of the toggle
InitEnv ==
  /\ env \in ToggleValues
  /\ now = 0
  /\ disk = EmptyMap
  /\ files = EmptyMap
  /\ faults = 0
  /\ ioFaults = 0
  /\ direct = 0
  /\ dirty = {}
  /\ pc = [r \in Reqs |-> "idle"]
  /\ route = [r \in Reqs |-> ""]
  /\ epoch = [r \in Reqs |-> 0]
  /\ parts = [r \in Reqs |-> <<>>]
  /\ reqFiles = [r \in Reqs |-> <<>>]
  /\ body = [r \in Reqs |-> JUndefined]
  /\ idx = [r \in Reqs |-> 0]
  /\ found = [r \in Reqs |-> <<>>]
  /\ buffer = [r \in Reqs |-> NoBuffer]
  /\ results = [r \in Reqs |-> <<>>]
  /\ res = [r \in Reqs |-> NoResponse]
  /\ call = NoCall

\* the upload route on an undisturbed disk
NextEnv ==
  \/ \E r \in Reqs : ArriveUpload(r)
  \/ \E r \in Reqs, part \in ClientFiles \cup RefusedFiles, uuid \in uuidv4Values :
       MulterPart(r, part, uuid)
  \/ \E r \in Reqs, part \in ClientFiles \cup RefusedFiles, uuid \in uuidv4Values :
       MulterAbort(r, part, uuid)
  \/ \E r \in Reqs : MulterDone(r)
  \/ \E r \in Reqs : checkFilesExist(r)
  \/ \E r \in Reqs : validateFileUpload(r)
  \/ \E r \in Reqs : ControllerUpload(r)
  \/ \E r \in Reqs : UploadItem(r, FALSE)

SpecEnv == InitEnv /\ [][NextEnv]_vars

(***************************************************************************)
(* Properties.                                                              *)
(***************************************************************************)
\* request r went to the upload route / the load route
IsUpload(r) == route[r] = "add-files"
IsLoad(r) == route[r] = "load-files"

\* request r has been answered, with 200 / with an error
Answered(r) == pc[r] = "sent"
Ok(r) == Answered(r) /\ res[r].status = 200
Failed(r) == Answered(r) /\ res[r].status # 200

\* the items of upload q that uploadFiles has processed
Ingested(q) == IF IsUpload(q) THEN 1..Len(results[q]) ELSE {}

\* the URI asked for at position k of load r
AskedUri(r, k) == body[r].a[k].s

\* load r was answered 200 and its k-th URI is the one upload q returned
\* for its j-th file, whose stored file nothing has changed since
RoundTrip(r, k, q, j) ==
  /\ IsLoad(r) /\ Ok(r) /\ k \in DOMAIN res[r].list
  /\ j \in Ingested(q)
  /\ results[q][j].uri = AskedUri(r, k)
  /\ reqFiles[q][j].path \notin dirty

\* C1: round trip.  When a load answered 200 and the URI it asked for at
\* position k is the one an upload returned for a file whose stored bytes
\* nothing changed, entry k carries exactly the bytes the client uploaded
\* and the MIME type recorded at ingestion.
C1_RoundTrip ==
  \A r \in Reqs, q \in Reqs :
    \A k \in DOMAIN res[r].list, j \in Ingested(q) :
      RoundTrip(r, k, q, j) =>
        /\ res[r].list[k].buffer.data = parts[q][j].content
        /\ res[r].list[k].type = parts[q][j].mimetype
        /\ res[r].list[k].type = files[AskedUri(r, k)].mimeType

\* C1 witness: an uploaded file has come back through a load
C1_Witness ==
  \E r \in Reqs, q \in Reqs :
    \E k \in DOMAIN res[r].list, j \in Ingested(q) :
      /\ RoundTrip(r, k, q, j)
      /\ parts[q][j].mimetype = <<"image/png">>

NotFoundError == ApiError(<<"Um ou mais arquivos nao foram encontrados">>, 400)
IntegrityError(uri) ==
  ApiError(<<"Falha na verificacao de integridade do arquivo: ">> \o uri, 400)
StatError(uri) == ApiError(<<"Arquivo nao encontrado: ">> \o uri, 404)
ReadError(uri) == ApiError(<<"Erro ao ler arquivo: ">> \o uri, 500)

\* load r called loadFiles, has been answered, and the disk is as it was
\* when loadFiles looked the URIs up
LoadedQuietly(r) ==
  IsLoad(r) /\ Answered(r) /\ found[r] # <<>> /\ epoch[r] = DiskEpoch

\* some URI of load r did not resolve
Unresolved(r) == \E i \in DOMAIN found[r] : found[r][i] = NullFile

\* entity f has a hash and the bytes of its stored file no longer have it
Altered(f) ==
  /\ f # NullFile
  /\ f.hash # <<>>
  /\ getFullPath(f.uri) \in DOMAIN disk
  /\ calculateHash(disk[getFullPath(f.uri)]) # f.hash

\* entity f has no hash and the bytes of its stored file were changed
Unhashed(f) ==
  /\ f # NullFile
  /\ f.hash = <<>>
  /\ getFullPath(f.uri) \in DOMAIN disk
  /\ getFullPath(f.uri) \in dirty

\* C3 as stated: a load whose batch holds the URI of an altered file with a
\* recorded hash is answered with an integrity error, and a load whose
\* batch holds the URI of a changed file without hash succeeds.
C3_AsStated ==
  \A r \in Reqs :
    LoadedQuietly(r) =>
      \A k \in DOMAIN found[r] :
        /\ Altered(found[r][k]) =>
             \E i \in DOMAIN found[r] :
               found[r][i] # NullFile
               /\ res[r] = errorHandler(IntegrityError(found[r][i].uri))
        /\ Unhashed(found[r][k]) => Ok(r)

\* C3, amended: a load whose batch holds, at position k, the URI of an
\* altered file with a recorded hash fails as a whole, with the error of
\* the first check that fails: the not-found error when a URI of the batch
\* does not resolve, else the error of a file at or before position k, which
\* is the integrity error of position k when the loop gets there and the
\* read succeeds.  A changed file without hash is never the cause of an
\* integrity error, and a load that succeeds returns its current bytes.
C3_Integrity ==
  \A r \in Reqs :
    LoadedQuietly(r) =>
      \A k \in DOMAIN found[r] :
        LET f == found[r][k] IN
        /\ Altered(f) =>
             /\ Failed(r)
             /\ res[r].list = <<>>
             /\ IF Unresolved(r)
                THEN res[r] = errorHandler(NotFoundError) /\ idx[r] = 0
                ELSE /\ idx[r] \in 1..k
                     /\ Len(results[r]) = idx[r] - 1
                     /\ LET u == found[r][idx[r]].uri
                        IN res[r] \in { errorHandler(StatError(u)),
                                        errorHandler(ReadError(u)),
                                        errorHandler(IntegrityError(u)) }
                     /\ (idx[r] = k /\ ioFaults = 0) =>
                          res[r] = errorHandler(IntegrityError(f.uri))
                     /\ (idx[r] < k /\ ioFaults = 0) =>
                          \/ Altered(found[r][idx[r]])
                          \/ getFullPath(found[r][idx[r]].uri) \notin DOMAIN disk
        /\ Unhashed(f) =>
             /\ res[r] # errorHandler(IntegrityError(f.uri))
             /\ Ok(r) =>
                  /\ res[r].list[k].buffer.data = disk[getFullPath(f.uri)]
                  /\ res[r].list[k].type = loadType(f, getFullPath(f.uri))
             /\ (Failed(r) /\ ioFaults = 0) =>
                  \/ Unresolved(r)
                  \/ idx[r] \in DOMAIN found[r] \ {k}

\* C3 witness: a load has returned the changed bytes of a file registered
\* without hash
C3_Witness ==
  \E r \in Reqs :
    /\ LoadedQuietly(r)
    /\ Ok(r)
    /\ \E k \in DOMAIN found[r] :
         /\ Unhashed(found[r][k])
         /\ res[r].list[k].buffer.data \in TamperContents

\* a load has failed with the integrity error of the second file of its
\* batch, after the first file passed
C3_IntegrityFailure ==
  \E r \in Reqs :
    /\ LoadedQuietly(r)
    /\ Len(found[r]) = 2
    /\ Altered(found[r][2])
    /\ Len(results[r]) = 1
    /\ res[r] = errorHandler(IntegrityError(found[r][2].uri))

\* the files multer has stored, as <<request, position>>
Stored == { qj \in Reqs \X (1..MaxParts) : qj[2] \in DOMAIN reqFiles[qj[1]] }

\* C4 as stated: uniqueness.  No two stored files, of one request or of
\* two, have the same stored name or the same URI.
C4_Uniqueness ==
  \A x \in Stored, y \in Stored :
    x # y =>
      /\ reqFiles[x[1]][x[2]].filename # reqFiles[y[1]][y[2]].filename
      /\ uriOf(reqFiles[x[1]][x[2]].path) # uriOf(reqFiles[y[1]][y[2]].path)

\* the URI of a stored file, spelled out: /uploads/<date folder>/<stored name>
UriSpelledOut(file) ==
  <<"/", "uploads", "/">> \o LastSegment(file.destination) \o <<"/">> \o file.filename

\* C5: order of ingestion.  An upload answered 200 carries one entry per
\* file part the client sent (at least one), the i-th entry holding the
\* original name and declared type of the i-th part and the URI of the file
\* stored for it.
C5_UploadOrder ==
  \A r \in Reqs :
    (IsUpload(r) /\ Ok(r)) =>
      /\ Len(parts[r]) >= 1
      /\ Len(res[r].list) = Len(parts[r])
      /\ \A i \in DOMAIN res[r].list :
           /\ res[r].list[i].name = parts[r][i].originalname
           /\ res[r].list[i].type = parts[r][i].mimetype
           /\ res[r].list[i].uri = UriSpelledOut(reqFiles[r][i])

\* C5 witness: an upload of two different parts was answered 200
C5_Witness ==
  \E r \in Reqs :
    /\ IsUpload(r) /\ Ok(r)
    /\ Len(parts[r]) = 2
    /\ parts[r][1] # parts[r][2]
    /\ res[r].list[1].uri # res[r].list[2].uri

C6_Repeated ==
  \E r \in Reqs :
    /\ IsLoad(r) /\ Ok(r)
    /\ Len(res[r].list) = 2
    /\ AskedUri(r, 1) = AskedUri(r, 2)

\* request r is an upload without file parts, or a load of an empty array
EmptyBatch(r) ==
  \/ IsUpload(r) /\ parts[r] = <<>>
  \/ IsLoad(r) /\ body[r] = JArray(<<>>)

\* the answer to an empty batch
EmptyBatchAnswer(r) ==
  IF IsUpload(r)
  THEN errorHandler(ApiError(<<"Arquivo nao informado">>, 400))
  ELSE errorHandler(ApiError(<<"Lista de URIs esta vazia">>, 400))

\* a step of request r
StepOf(r) == pc'[r] # pc[r]

\* C7: rejection of empty batches.  An upload without file parts and a load
\* of an empty uris array are answered 400 with a validation error
\* ("Arquivo nao informado" for the upload), and no step of such a request
\* writes a file or changes the index.
C7_EmptyBatch ==
  /\ [](\A r \in Reqs :
          (EmptyBatch(r) /\ Answered(r)) =>
            /\ res[r] = EmptyBatchAnswer(r)
            /\ res[r].status = 400
            /\ reqFiles[r] = <<>> /\ found[r] = <<>> /\ results[r] = <<>>)
  /\ [][\A r \in Reqs :
          (StepOf(r) /\ EmptyBatch(r)') => (disk' = disk /\ files' = files)]_vars

\* C7 witness: an empty upload and an empty load have both been answered,
\* and nothing is stored or registered
C7_Witness ==
  \E r \in Reqs, q \in Reqs :
    /\ IsUpload(r) /\ EmptyBatch(r) /\ Answered(r)
    /\ IsLoad(q) /\ EmptyBatch(q) /\ Answered(q)
    /\ disk = EmptyMap /\ files = EmptyMap

\* the body of a load is not a non-empty array of strings
InvalidUris(uris) ==
  \/ uris.t # "array"
  \/ uris.a = <<>>
  \/ \E k \in DOMAIN uris.a : uris.a[k].t # "string"

\* the message the validation answers an invalid body with
InvalidUrisMessage(uris) ==
  IF uris = JUndefined THEN <<"URIs nao informadas">>
  ELSE IF uris.t # "array" THEN <<"URIs devem ser um array">>
  ELSE IF uris.a = <<>> THEN <<"Lista de URIs esta vazia">>
  ELSE <<"Todas as URIs devem ser strings">>

\* C8: validation of a load.  A body without uris, with uris that is not
\* an array, with an empty array or with an element that is not a string
\* is answered 400 with a validation error by the middleware, before any
\* lookup or read; a request that gets past the middleware has a non-empty
\* array of strings.
C8_LoadValidation ==
  \A r \in Reqs :
    IsLoad(r) =>
      /\ InvalidUris(body[r]) =>
           /\ pc[r] \in {"validateLoadFilesRequest", "sent"}
           /\ found[r] = <<>> /\ idx[r] = 0
           /\ buffer[r] = NoBuffer /\ results[r] = <<>>
           /\ Answered(r) =>
                res[r] = errorHandler(ApiError(InvalidUrisMessage(body[r]), 400))
      /\ (pc[r] \notin {"validateLoadFilesRequest", "sent"} \/ found[r] # <<>>) =>
           /\ IsArray(body[r])
           /\ Len(body[r].a) >= 1
           /\ \A k \in DOMAIN body[r].a : body[r].a[k].t = "string"

\* C8 witness: an array with an element that is not a string, after one
\* that names a registered file, has been rejected
C8_Witness ==
  \E r \in Reqs :
    /\ IsLoad(r) /\ Answered(r)
    /\ Len(body[r].a) = 2
    /\ body[r].a[1].t = "string" /\ body[r].a[1].s \in DOMAIN files
    /\ body[r].a[2].t # "string"
    /\ res[r].status = 400

\* C9 as stated: atomic creation.  After an upload has been answered, and
\* nothing but the service having written to the upload tree, each of its
\* stored files is on disk exactly if its index entry exists.
C9_Atomic ==
  \A r \in Reqs :
    (IsUpload(r) /\ Answered(r) /\ faults = 0) =>
      \A j \in DOMAIN reqFiles[r] :
        (reqFiles[r][j].path \in DOMAIN disk)
          <=> (uriOf(reqFiles[r][j].path) \in DOMAIN files)

\* upload r failed inside the loop of uploadFiles, at the item idx[r]
FailedAtItem(r) == IsUpload(r) /\ Failed(r) /\ idx[r] >= 1

\* the error FileStorage.readFile raises for a stored file
UploadReadErrors(file) ==
  { ApiError(<<"Arquivo nao encontrado: ">> \o file.filename, 404),
    ApiError(<<"Erro ao ler arquivo: ">> \o <<"EIO: i/o error, read">>, 500) }

\* some stored file other than item j of upload r was registered under
\* the URI of that item
RegisteredByAnother(r, j) ==
  \E q \in Reqs :
    \E i \in Ingested(q) :
      /\ <<q, i>> # <<r, j>>
      /\ results[q][i].uri = uriOf(reqFiles[r][j].path)

\* C10: partial failure without rollback.  When the processing of item k
\* of an upload fails, the entries of items 1..k-1 are in the index and
\* their files are on disk as uploaded (unless something outside the
\* service changed them since), no item from k on has been registered by
\* this request, and the request is answered with the error of the failed
\* read and no list.
C10_PartialFailure ==
  \A r \in Reqs :
    FailedAtItem(r) =>
      LET k == idx[r] IN
      /\ k \in DOMAIN reqFiles[r]
      /\ Len(results[r]) = k - 1
      /\ \A j \in 1..(k - 1) :
           LET file == reqFiles[r][j] IN
           /\ uriOf(file.path) \in DOMAIN files
           /\ files[uriOf(file.path)].uri = results[r][j].uri
           /\ faults = 0 => file.path \in DOMAIN disk
           /\ file.path \notin dirty =>
                file.path \in DOMAIN disk /\ disk[file.path] = parts[r][j].content
      /\ \A j \in k..Len(reqFiles[r]) :
           uriOf(reqFiles[r][j].path) \in DOMAIN files => RegisteredByAnother(r, j)
      /\ res[r] \in { errorHandler(e) : e \in UploadReadErrors(reqFiles[r][k]) }
      /\ res[r].status \in {404, 500}
      /\ res[r].list = <<>>

\* C10 witness: an upload of two files has failed at the second one; the
\* first is on disk and in the index, the second is not in the index
C10_Witness ==
  \E r \in Reqs :
    /\ FailedAtItem(r)
    /\ idx[r] = 2
    /\ reqFiles[r][1].path \in DOMAIN disk
    /\ uriOf(reqFiles[r][1].path) \in DOMAIN files
    /\ uriOf(reqFiles[r][2].path) \notin DOMAIN files

\* what request r has of its own
Own(r) == <<pc[r], idx[r], found[r], buffer[r], results[r], res[r], reqFiles[r]>>

\* the index entries request r can have made: those of its ingested items
OwnEntries(r) == { results[r][j].uri : j \in Ingested(r) }

\* C11: fail-fast propagation.  A request that fails is answered with one
\* error and no list, a request that succeeds with a list and no error; a
\* request that failed at item k of its loop has gone through the items
\* before k only; and once a request is answered it does nothing more: its
\* position, its results and its response stay as they are and no index
\* entry appears under a URI it did not register before.
C11_FailFast ==
  /\ [](\A r \in Reqs :
          /\ res[r].sent <=> Answered(r)
          /\ Failed(r) =>
               /\ res[r].body \in {"error", "errorText"}
               /\ res[r].error.message # <<>>
               /\ res[r].list = <<>>
               /\ idx[r] >= 1 => Len(results[r]) = idx[r] - 1
          /\ Ok(r) => res[r].body = "list" /\ res[r].error = NoError)
  /\ [][\A r \in Reqs :
          Answered(r) =>
            /\ Own(r)' = Own(r)
            /\ (files' # files /\ IsUpload(r)) =>
                 \A j \in DOMAIN reqFiles[r] :
                   LET u == uriOf(reqFiles[r][j].path)
                   IN (u \in DOMAIN files' /\ u \notin DOMAIN files) =>
                        \E q \in Reqs \ {r} : u \in OwnEntries(q)']_vars

\* C11 witness: a load of two different files has failed at the first one,
\* and the second one was never read
C11_Witness ==
  \E r \in Reqs :
    /\ IsLoad(r) /\ Failed(r)
    /\ idx[r] = 1 /\ Len(found[r]) = 2 /\ found[r][1] # found[r][2]
    /\ results[r] = <<>> /\ res[r].list = <<>>

\* C12 as stated: shape of an error.  Every response that is not a 200
\* has the body {error: {message, statusCode}}, and its HTTP status is that
\* statusCode.
C12_ErrorShape ==
  \A r \in Reqs :
    Failed(r) =>
      /\ res[r].body = "error"
      /\ res[r].error.message # <<>>
      /\ res[r].error.statusCode = res[r].status

\* the error responses that do have the shape {error: {message, statusCode}}:
\* all those errorHandler sends
C12_ThroughErrorHandler ==
  \A r \in Reqs :
    (Failed(r) /\ res[r].body # "errorText") =>
      /\ res[r].body = "error"
      /\ res[r].error.statusCode = res[r].status
      /\ res[r].status \in {400, 404, 500}

\* entity f is registered and no file is at the path its URI resolves to
Orphaned(f) == f # NullFile /\ getFullPath(f.uri) \notin DOMAIN disk

AsksUnknown(r) ==
  /\ IsLoad(r) /\ Answered(r)
  /\ ~InvalidUris(body[r])
  /\ \E k \in DOMAIN body[r].a :
       /\ AskedUri(r, k) \in UnknownUris
       /\ startsWith(AskedUri(r, k), <<"/", "uploads", "/">>)
       /\ \A x \in Stored : uriOf(reqFiles[x[1]][x[2]].path) # AskedUri(r, k)

UpperChar(c) ==
  IF \E k \in DOMAIN LowerChars : LowerChars[k] = c
  THEN UpperChars[CHOOSE k \in DOMAIN LowerChars : LowerChars[k] = c]
  ELSE c

toUpperCase(s) == [k \in DOMAIN s |-> UpperChar(s[k])]

\* directories, file stems and extensions the paths given to getMimeType
\* are made of: every extension of the table as written, in capitals and
\* (.Pdf) mixed, an unknown one, a lone dot and none
MimeDirs ==
  { <<>>, <<"/", "app", "/", "public", "/", "uploads", "/">>, <<"/", "s", "r", "v", ".", "d", "/">> }

MimeStems == { <<"r", "e", "p", "o", "r", "t">>, <<"d", "a", "t", "a", ".", "v", "2">>, <<>> }

MimeExts ==
  { e[1] : e \in mimeTypes } \cup { toUpperCase(e[1]) : e \in mimeTypes }
    \cup { <<".", "P", "d", "f">>, <<".", "u", "n", "k", "n", "o", "w", "n", "e", "x", "t">>,
           <<".">>, <<>> }

\* the calls of getMimeType
MimeCalls ==
  { [fn |-> "getMimeType", path |-> d \o st \o e, stem |-> st, ext |-> e, blob |-> <<>>,
     hash |-> <<>>, ioFail |-> FALSE, index |-> <<>>, file |-> <<>>, uris |-> <<>>,
     ret |-> <<>>] :
      d \in MimeDirs, st \in MimeStems, e \in MimeExts \ {<<>>} }
    \cup
  { [fn |-> "getMimeType", path |-> d \o st, stem |-> st, ext |-> <<>>, blob |-> <<>>,
     hash |-> <<>>, ioFail |-> FALSE, index |-> <<>>, file |-> <<>>, uris |-> <<>>,
     ret |-> <<>>] :
      d \in MimeDirs, st \in MimeStems \ {<<>>} }

\* getMimeType is applied to the path of the call
ApplyGetMimeType ==
  /\ call.fn = "getMimeType"
  /\ call.ret = <<>>
  /\ call' = [call EXCEPT !.ret = <<getMimeType(call.path)>>]
  /\ UNCHANGED <<env, now, disk, files, faults, ioFaults, direct, dirty, pc, route, epoch,
                 parts, reqFiles, body, idx, found, buffer, results, res>>

\* paths, file contents and expected hashes verifyFileIntegrity is called
\* with; blob is <<>> when there is no file at the path, else <<bytes>>
VerifyPaths ==
  { getFullPath(u) : u \in UnknownUris }
    \cup { pathJoin(destination(0), filename(f.originalname, 0, u)) :
          f \in ClientFiles, u \in uuidv4Values }

VerifyBlobs == { <<104, 105>>, <<7>>, <<0>>, <<>> }

VerifyHashes == { <<>> } \cup { calculateHash(b) : b \in VerifyBlobs }

VerifyCalls ==
  { [fn |-> "verifyFileIntegrity", path |-> p, stem |-> <<>>, ext |-> <<>>, blob |-> b,
     hash |-> h, ioFail |-> io, index |-> <<>>, file |-> <<>>, uris |-> <<>>,
     ret |-> <<>>] :
      p \in VerifyPaths, b \in {<<>>} \cup { <<x>> : x \in VerifyBlobs },
      h \in VerifyHashes, io \in BOOLEAN }

\* verifyFileIntegrity is applied to the path and the hash of the call
ApplyVerifyFileIntegrity ==
  /\ call.fn = "verifyFileIntegrity"
  /\ call.ret = <<>>
  /\ call' = [call EXCEPT !.ret = <<verifyFileIntegrity(disk, call.path, call.hash,
                                                          call.ioFail)>>]
  /\ UNCHANGED <<env, now, disk, files, faults, ioFaults, direct, dirty, pc, route, epoch,
                 parts, reqFiles, body, idx, found, buffer, results, res>>

\* entities the repository is given: those uploadFiles builds for the
\* clients' files, stored under any uuid (the two files share their stored
\* name, so each URI has two entities), and entities without hash
SampleFiles ==
  { uploadEntity(MulterFile(part, 0, uuid), calculateHash(part.content)) :
      part \in ClientFiles, uuid \in uuidv4Values }
    \cup { [uploadEntity(MulterFile(part, 0, uuid), <<>>) EXCEPT !.mimeType = <<>>] :
             part \in ClientFiles, uuid \in uuidv4Values }

SampleUris == { f.uri : f \in SampleFiles }

\* the states of FileRepositoryImpl.files: every entity under its own URI
SampleIndexes ==
  UNION { { m \in [S -> SampleFiles] : \A u \in S : m[u].uri = u } : S \in SUBSET SampleUris }

\* the calls of saveFile
SaveCalls ==
  { [fn |-> "saveFile", path |-> <<>>, stem |-> <<>>, ext |-> <<>>, blob |-> <<>>,
     hash |-> <<>>, ioFail |-> FALSE, index |-> m, file |-> <<f>>, uris |-> <<>>,
     ret |-> <<>>] :
      m \in SampleIndexes, f \in SampleFiles }

\* the calls of getFilesByUris: up to MaxUris URIs, held or not, repeated
\* or not
LookupCalls ==
  { [fn |-> "getFilesByUris", path |-> <<>>, stem |-> <<>>, ext |-> <<>>, blob |-> <<>>,
     hash |-> <<>>, ioFail |-> FALSE, index |-> m, file |-> <<>>, uris |-> <<us>>,
     ret |-> <<>>] :
      m \in SampleIndexes, us \in SeqsOf(SampleUris \cup UnknownUris, 0, MaxUris) }

\* saveFile is applied to the entity of the call
ApplySaveFile ==
  /\ call.fn = "saveFile"
  /\ call.ret = <<>>
  /\ files' = saveFile(files, call.file[1])
  /\ call' = [call EXCEPT !.ret = <<call.file[1]>>]
  /\ UNCHANGED <<env, now, disk, faults, ioFaults, direct, dirty, pc, route, epoch,
                 parts, reqFiles, body, idx, found, buffer, results, res>>

\* getFilesByUris is applied to the URIs of the call
ApplyGetFilesByUris ==
  /\ call.fn = "getFilesByUris"
  /\ call.ret = <<>>
  /\ call' = [call EXCEPT !.ret = <<getFilesByUris(files, call.uris[1])>>]
  /\ UNCHANGED <<env, now, disk, files, faults, ioFaults, direct, dirty, pc, route, epoch,
                 parts, reqFiles, body, idx, found, buffer, results, res>>

\* the state before a function is applied: the service at rest, one call
FnCalls == MimeCalls \cup VerifyCalls \cup SaveCalls \cup LookupCalls

\* the disk a call finds
DiskOf(c) ==
  IF c.fn = "verifyFileIntegrity" /\ c.blob # <<>> THEN Put(EmptyMap, c.path, c.blob[1])
  ELSE EmptyMap

InitFn ==
  /\ call \in FnCalls
  /\ env = "true"
  /\ now = 0
  /\ disk = DiskOf(call)
  /\ files = call.index
  /\ faults = 0
  /\ ioFaults = 0
  /\ direct = 0
  /\ dirty = {}
  /\ pc = [r \in Reqs |-> "idle"]
  /\ route = [r \in Reqs |-> ""]
  /\ epoch = [r \in Reqs |-> 0]
  /\ parts = [r \in Reqs |-> <<>>]
  /\ reqFiles = [r \in Reqs |-> <<>>]
  /\ body = [r \in Reqs |-> JUndefined]
  /\ idx = [r \in Reqs |-> 0]
  /\ found = [r \in Reqs |-> <<>>]
  /\ buffer = [r \in Reqs |-> NoBuffer]
  /\ results = [r \in Reqs |-> <<>>]
  /\ res = [r \in Reqs |-> NoResponse]

NextFn ==
  \/ ApplyGetMimeType
  \/ ApplyVerifyFileIntegrity
  \/ ApplySaveFile
  \/ ApplyGetFilesByUris

SpecFn == InitFn /\ [][NextFn]_vars

\* the call of getMimeType has returned
MimeReturned == call.fn = "getMimeType" /\ call.ret # <<>>

\* the table's entries for an extension, whatever its case
MimeEntries(ext) == { e \in mimeTypes : toUpperCase(e[1]) = toUpperCase(ext) }

\* C15: getMimeType goes by the extension of the path only, whatever the
\* case of its letters, through the extension table (report.PDF and
\* report.pdf give application/pdf, .jpg image/jpeg, .txt text/plain), and
\* gives application/octet-stream for every extension that is not in the
\* table and for every path without one; the directory and the rest of the
\* name do not matter.
C15_MimeInference ==
  MimeReturned =>
    LET hasExt == call.stem # <<>> /\ call.ext # <<>>
        hits   == IF hasExt THEN MimeEntries(call.ext) ELSE {}
    IN /\ hits # {} => \A e \in hits : call.ret[1] = e[2]
       /\ hits = {} => call.ret[1] = <<"application/octet-stream">>
       /\ call.stem = <<"r", "e", "p", "o", "r", "t">> =>
            /\ call.ext \in { <<".", "P", "D", "F">>, <<".", "p", "d", "f">>,
                              <<".", "P", "d", "f">> }
                 => call.ret[1] = <<"application/pdf">>
            /\ call.ext = <<".", "j", "p", "g">> => call.ret[1] = <<"image/jpeg">>
            /\ call.ext = <<".", "t", "x", "t">> => call.ret[1] = <<"text/plain">>
            /\ call.ext \in { <<".", "u", "n", "k", "n", "o", "w", "n", "e", "x", "t">>,
                              <<".">>, <<>> }
                 => call.ret[1] = <<"application/octet-stream">>

\* report.PDF, in a directory whose name has a dot, was given its type
C15_Witness ==
  /\ MimeReturned
  /\ call.path = <<"/", "s", "r", "v", ".", "d", "/", "r", "e", "p", "o", "r", "t",
                   ".", "P", "D", "F">>
  /\ call.ret = << <<"application/pdf">> >>

\* what the file system says when a read fails: text of the platform, not
\* of the service
InternalTexts == { "EIO: i/o error, read" }

\* the body of the response to r carries text of an internal error
Leaks(r) ==
  \E k \in DOMAIN res[r].error.message : res[r].error.message[k] \in InternalTexts

\* C16: the body of an error response never carries internal diagnostic
\* detail: no error response holds the text of the file system error that
\* made the request fail, so that requests failing on internal errors of
\* different texts are answered alike.
C16_NoLeak == \A r \in Reqs : Failed(r) => ~Leaks(r)

\* C17: the MIME type recorded for a file at ingestion, and returned as
\* type in the upload response, is the one inferred from the extension of
\* the file's name (application/octet-stream when the extension is
\* unknown).
C17_TypeByExtension ==
  \A q \in Reqs :
    \A j \in Ingested(q) :
      /\ results[q][j].type = getMimeType(reqFiles[q][j].originalname)
      /\ results[q][j].uri \in DOMAIN files
           => files[results[q][j].uri].mimeType \in
                { getMimeType(reqFiles[x[1]][x[2]].originalname) :
                    x \in { y \in Stored : uriOf(reqFiles[y[1]][y[2]].path) = results[q][j].uri } }

\* upload r carried more file parts than limits.files / a file part with
\* more bytes than limits.fileSize
OverCount(r) == IsUpload(r) /\ Len(parts[r]) > limits.files
OverSize(r) ==
  IsUpload(r) /\ \E k \in DOMAIN parts[r] : Len(parts[r][k].content) > limits.fileSize
OverLimit(r) == OverCount(r) \/ OverSize(r)

\* C18: an upload that carries more files than the cap per request or a
\* file longer than the cap per file is answered 400 as soon as the part
\* over the limit arrives; it never reaches uploadFiles, returns no entry,
\* and no step it is in adds an entry to the index.
C18_BoundaryLimits ==
  /\ [](\A r \in Reqs :
          OverLimit(r) =>
            /\ Answered(r)
            /\ res[r].status = 400
            /\ res[r].list = <<>>
            /\ idx[r] = 0
            /\ results[r] = <<>>)
  /\ [][\A r \in Reqs :
          (OverLimit(r)' /\ files' # files)
            => \E q \in Reqs \ {r} : pc[q] = "uploadFiles" /\ results'[q] # results[q]]_vars

\* one upload was turned away for its third file, another for a file of
\* three bytes
C18_Witness ==
  \E r \in Reqs, q \in Reqs :
    /\ OverCount(r) /\ ~OverSize(r) /\ res[r].status = 400
    /\ OverSize(q) /\ ~OverCount(q) /\ res[q].status = 400

\* C19: the hash recorded for a file is the SHA-256 digest of the bytes
\* that were uploaded for it: every index entry with a hash was registered
\* for an item some upload has ingested under that URI, and its hash is
\* the digest of the bytes of that item's part, also when the stored file
\* was touched between multer's write and the hashing.
C19_HashOfUploadedBytes ==
  \A u \in DOMAIN files :
    files[u].hash # <<>> =>
      \E q \in Reqs :
        \E j \in Ingested(q) :
          /\ results[q][j].uri = u
          /\ files[u].hash = calculateHash(parts[q][j].content)

\* the call of verifyFileIntegrity has returned
VerifyReturned == call.fn = "verifyFileIntegrity" /\ call.ret # <<>>

\* the file of the call is there and the read of it does not fail
Readable == call.blob # <<>> /\ ~call.ioFail

\* C20 as stated: verifyFileIntegrity returns true exactly when the digest
\* of the file at the path equals the expected hash, and returns true for
\* every path when no expected hash is given.
C20_AsStated ==
  VerifyReturned =>
    IF call.hash = <<>> THEN call.ret[1] = TRUE
    ELSE call.ret[1] = (Readable /\ calculateHash(call.blob[1]) = call.hash)

\* C20: verifyFileIntegrity returns true exactly when the file at the path
\* can be read and either no expected hash is given or the SHA-256 digest
\* of the file's bytes equals the expected hash; for a path without a
\* readable file it returns false, expected hash or not.
C20_VerifyIntegrity ==
  VerifyReturned =>
    call.ret[1] = (Readable /\ (call.hash = <<>> \/ calculateHash(call.blob[1]) = call.hash))

\* no file at the path, no expected hash: the verification failed
C20_Witness ==
  /\ VerifyReturned
  /\ call.blob = <<>>
  /\ call.hash = <<>>
  /\ call.ret = <<FALSE>>

\* the URI of the j-th stored file of upload q
ItemUri(q, j) == uriOf(reqFiles[q][j].path)

\* no other stored file has the URI of the j-th stored file of upload q
OwnUri(q, j) ==
  \A x \in Stored : x # <<q, j>> => ItemUri(x[1], x[2]) # ItemUri(q, j)

\* the complete entity of the j-th stored file of upload q
CompleteEntity(q, j) ==
  [name |-> reqFiles[q][j].originalname, filename |-> reqFiles[q][j].filename,
   path |-> reqFiles[q][j].path, uri |-> ItemUri(q, j),
   mimeType |-> reqFiles[q][j].mimetype, size |-> Len(parts[q][j].content),
   hash |-> calculateHash(parts[q][j].content)]

\* the items ingested so far, as <<request, position>>
AllIngested == { x \in Stored : x[2] \in Ingested(x[1]) }

\* the stored files have pairwise distinct URIs
DistinctUris == \A x \in Stored : OwnUri(x[1], x[2])

\* C21: index under overlapping requests.  Whatever the interleaving of
\* uploads and loads whose stored files have pairwise distinct URIs, every
\* ingested item is in the index under its URI with its complete entity,
\* the index holds entries of ingested items only, each under its own URI,
\* and every lookup of a load returned, per URI, either null or the
\* complete entity of the ingested item with that URI.
C21_IndexConcurrency ==
  DistinctUris =>
  /\ \A x \in AllIngested :
       /\ ItemUri(x[1], x[2]) \in DOMAIN files
       /\ files[ItemUri(x[1], x[2])] = CompleteEntity(x[1], x[2])
  /\ \A u \in DOMAIN files :
       \E x \in AllIngested : files[u] = CompleteEntity(x[1], x[2]) /\ ItemUri(x[1], x[2]) = u
  /\ \A r \in Reqs :
       IsLoad(r) =>
         \A k \in DOMAIN found[r] :
           \/ found[r][k] = NullFile
           \/ \E x \in AllIngested :
                /\ found[r][k] = CompleteEntity(x[1], x[2])
                /\ ItemUri(x[1], x[2]) = AskedUri(r, k)

\* upload 1 has ingested the first of its two files and waits for the read
\* of the second; upload 2 arrived later and was ingested meanwhile; the
\* three URIs differ and the index holds the two entries
C21_Witness ==
  /\ IsUpload(1) /\ pc[1] = "uploadFiles" /\ Len(reqFiles[1]) = 2 /\ Len(results[1]) = 1
  /\ IsUpload(2) /\ Ok(2) /\ Len(results[2]) = 1
  /\ DistinctUris
  /\ DOMAIN files = { ItemUri(1, 1), ItemUri(2, 1) }

\* the call of saveFile has returned
SaveReturned == call.fn = "saveFile" /\ call.ret # <<>>

\* C22: saveFile(file) makes the index map file.uri to file, whatever was
\* registered under that URI before, and leaves the entry of every other
\* URI as it was; it returns the file.
C22_SaveFile ==
  SaveReturned =>
    LET file == call.file[1]
    IN /\ DOMAIN files = DOMAIN call.index \cup {file.uri}
       /\ files[file.uri] = file
       /\ \A u \in DOMAIN call.index : u # file.uri => files[u] = call.index[u]
       /\ call.ret = <<file>>

\* an entity took the place of another one under its URI, next to the
\* entry of another URI
C22_Witness ==
  /\ SaveReturned
  /\ call.file[1].uri \in DOMAIN call.index
  /\ call.index[call.file[1].uri] # call.file[1]
  /\ files[call.file[1].uri] = call.file[1]
  /\ \E u \in DOMAIN call.index : u # call.file[1].uri

\* the call of getFilesByUris has returned
LookupReturned == call.fn = "getFilesByUris" /\ call.ret # <<>>

\* C23: getFilesByUris(uris) returns a list as long as uris whose i-th
\* element is the entity registered under uris[i], or null when there is
\* none: the entities come in the order of the URIs and a missing one
\* keeps its place.
C23_BatchLookup ==
  LookupReturned =>
    LET uris == call.uris[1]
        list == call.ret[1]
    IN /\ Len(list) = Len(uris)
       /\ \A i \in DOMAIN uris :
            IF uris[i] \in DOMAIN call.index
            THEN list[i] = call.index[uris[i]] /\ list[i].uri = uris[i]
            ELSE list[i] = NullFile

\* two URIs were looked up, the first not registered, the second
\* registered: null came first, the entity second
C23_Witness ==
  /\ LookupReturned
  /\ Len(call.uris[1]) = 2
  /\ call.uris[1][1] \notin DOMAIN call.index
  /\ call.uris[1][2] \in DOMAIN call.index
  /\ call.ret[1] = <<NullFile, call.index[call.uris[1][2]]>>

\* the step taken is a step of load r: its arrival, its validation, its
\* lookup, a stat, a read, a verification, its answer
LoadStep(r) ==
  /\ IsLoad(r)'
  /\ \/ pc'[r] # pc[r]
     \/ idx'[r] # idx[r]
     \/ found'[r] # found[r]
     \/ results'[r] # results[r]
     \/ buffer'[r] # buffer[r]
     \/ res'[r] # res[r]

\* C24: retrieval is read-only.  No step of a load request, the lookups
\* of the index included, changes the index or a stored file, whether the
\* request ends with 200 or with an error.
C24_ReadOnly ==
  [][\A r \in Reqs : LoadStep(r) => files' = files /\ disk' = disk]_vars

\* a load of two URIs was answered 200 and every entry of the index still
\* has its untouched file
C24_Witness ==
  \E r \in Reqs :
    /\ IsLoad(r) /\ Ok(r) /\ Len(res[r].list) = 2
    /\ dirty = {}
    /\ DOMAIN files # {}
    /\ \A u \in DOMAIN files :
         /\ getFullPath(u) \in DOMAIN disk
         /\ calculateHash(disk[getFullPath(u)]) = files[u].hash

\* upload r carried a file part whose declared type is not in the
\* allow-list
HasDisallowed(r) ==
  IsUpload(r) /\ \E k \in DOMAIN parts[r] : parts[r][k].mimetype \notin ALLOWED_MIME_TYPES

\* the parts of upload r are within the limits of count and size
WithinLimits(r) == IsUpload(r) /\ ~OverCount(r) /\ ~OverSize(r)

\* the answer of fileFilter to a part of the given type
TypeRefused(r, mimetype) ==
  /\ res[r].body = "error"
  /\ res[r].error.message = <<"Tipo de arquivo nao permitido: ">> \o mimetype
  /\ res[r].error.statusCode = 400

\* C25: the allow-list toggle.  With VALIDATE_FILE_TYPES = "true" an
\* upload with a file part of a type outside the allow-list is answered
\* 400 when that part arrives, with 'Tipo de arquivo nao permitido: <type>'
\* unless the part was already one too many, and it returns and registers
\* nothing.  With any other value no upload is turned away for a type:
\* every part of an upload within the limits of count and size was stored,
\* and when no stored file was overwritten or removed the upload got 200
\* with one entry per part, of the part's type.
C25_AllowListToggle ==
  /\ [](\A r \in Reqs :
          /\ (env = "true" /\ HasDisallowed(r)) =>
               /\ Answered(r)
               /\ res[r].status = 400
               /\ idx[r] = 0
               /\ results[r] = <<>>
               /\ ~OverCount(r) => TypeRefused(r, parts[r][Len(parts[r])].mimetype)
          /\ (env # "true" /\ WithinLimits(r)) =>
               /\ Len(reqFiles[r]) = Len(parts[r])
               /\ \A k \in DOMAIN parts[r] : reqFiles[r][k].mimetype = parts[r][k].mimetype
               /\ (Answered(r) /\ parts[r] # <<>> /\ dirty = {}) =>
                    /\ Ok(r)
                    /\ Len(res[r].list) = Len(parts[r])
                    /\ \A k \in DOMAIN parts[r] :
                         res[r].list[k].type = parts[r][k].mimetype)
  /\ [][\A r \in Reqs :
          (env = "true" /\ HasDisallowed(r)' /\ files' # files)
            => \E q \in Reqs \ {r} : pc[q] = "uploadFiles" /\ results'[q] # results[q]]_vars

\* with the toggle on, an upload was turned away for its second file, a
\* shell script, after its first file had been stored
C25_Witness ==
  \E r \in Reqs :
    /\ env = "true"
    /\ Len(parts[r]) = 2
    /\ parts[r][2].mimetype = <<"application/x-sh">>
    /\ Len(reqFiles[r]) = 1
    /\ res[r].status = 400
    /\ TypeRefused(r, <<"application/x-sh">>)

\* C26: verified bytes are the returned bytes.  Whenever a load returns
\* the bytes of a file whose entity has a hash, the SHA-256 digest of the
\* returned bytes is that hash, also when the file is rewritten between
\* the read for the payload and the read for the verification.
C26_VerifiedBytes ==
  \A r \in Reqs :
    (IsLoad(r) /\ Ok(r)) =>
      \A k \in DOMAIN res[r].list :
        found[r][k].hash # <<>> =>
          calculateHash(res[r].list[k].buffer.data) = found[r][k].hash

\* the steps of loadFiles that touch the file system: the stat and the
\* read of getFile, the read of verifyFileIntegrity
ReadSteps == {"getFileStat", "getFileRead", "verifyFileIntegrity"}

\* load r passed validation and asks for a string that is not registered
AsksUnregistered(r) ==
  /\ IsLoad(r)
  /\ validateLoadFilesError(body[r]) = NoError
  /\ \E k \in DOMAIN body[r].a : AskedUri(r, k) \notin DOMAIN files

\* C27: index-gated reads.  A load is at a step that touches the file
\* system only for an entity the index gave it under the URI it asked for,
\* a URI that is registered, after every URI of the request resolved; a load that asks for a string
\* that is not registered has touched no file: it never entered the loop,
\* read no buffer and built no entry.
C27_IndexGatedReads ==
  \A r \in Reqs :
    /\ (IsLoad(r) /\ pc[r] \in ReadSteps) =>
         /\ idx[r] \in DOMAIN found[r]
         /\ \A k \in DOMAIN body[r].a : AskedUri(r, k) \in DOMAIN files
         /\ found[r][idx[r]] # NullFile
         /\ found[r][idx[r]].uri = AskedUri(r, idx[r])
    /\ AsksUnregistered(r) =>
         /\ pc[r] \notin ReadSteps
         /\ idx[r] = 0
         /\ buffer[r] = NoBuffer
         /\ results[r] = <<>>

\* a load asked for the URI of a file that is on disk and not registered
\* and for a string that leaves the upload tree; it was answered 400 and
\* read nothing
C27_Witness ==
  \E r \in Reqs :
    /\ AsksUnregistered(r)
    /\ Failed(r)
    /\ Len(body[r].a) = 2
    /\ getFullPath(AskedUri(r, 1)) \in DOMAIN disk
    /\ AskedUri(r, 2) \in OutsideUris
    /\ idx[r] = 0

\* the step that follows a step of the middleware chain when it passes
\* control on
Onward(step) ==
  CASE step = "multer"                   -> {"multer", "checkFilesExist"}
    [] step = "checkFilesExist"          -> {"validateFileUpload"}
    [] step = "validateFileUpload"       -> {"uploadController"}
    [] step = "uploadController"         -> {"uploadFiles"}
    [] step = "uploadFiles"              -> {"uploadFiles"}
    [] step = "validateLoadFilesRequest" -> {"loadController"}
    [] step = "loadController"           -> {"getFileStat"}
    [] step = "getFileStat"              -> {"getFileRead"}
    [] step = "getFileRead"              -> {"verifyFileIntegrity", "getFileStat"}
    [] step = "verifyFileIntegrity"      -> {"getFileStat"}
    [] OTHER                             -> {}

\* request r is answered in this step, once, and ends
Sends(r) == ~res[r].sent /\ res'[r].sent /\ res'[r].status # 0 /\ pc'[r] = "sent"

\* request r goes on in this step without an answer
PassesOn(r) == res'[r] = res[r] /\ ~res[r].sent /\ pc'[r] \in Onward(pc[r])

\* C28: exactly one response per request.  Every request that has arrived
\* is eventually answered; every step of its chain either sends the
\* response, which ends the request, or passes control on without sending,
\* never both and never neither; and once the response is sent, nothing of
\* the request changes again.
C28_OneResponse ==
  /\ \A r \in Reqs : (pc[r] # "idle") ~> (res[r].sent /\ pc[r] = "sent")
  /\ [][\A r \in Reqs :
          /\ (pc[r] = "idle" /\ pc'[r] # "idle") =>
               \/ Sends(r) /\ res'[r].status = 429
               \/ res'[r] = res[r] /\ pc'[r] \in {"multer", "validateLoadFilesRequest"}
          /\ (pc[r] \notin {"idle", "sent"}
                /\ <<pc[r], idx[r], parts[r], results[r], buffer[r], res[r]>>
                     # <<pc'[r], idx'[r], parts'[r], results'[r], buffer'[r], res'[r]>>) =>
               /\ Sends(r) \/ PassesOn(r)
               /\ ~(Sends(r) /\ PassesOn(r))
          /\ pc[r] = "sent" =>
               /\ res[r].sent
               /\ pc'[r] = "sent"
               /\ res'[r] = res[r]]_vars

\* an upload went through its whole chain and got its list, another
\* request was stopped by its rate limiter
C28_Witness ==
  \E r \in Reqs, q \in Reqs :
    /\ IsUpload(r) /\ Ok(r) /\ Len(res[r].list) >= 1
    /\ Answered(q) /\ res[q].status = 429 /\ res[q].body = "text"

\* the index keeps every entry, and an entry changes only when an upload
\* registers an artifact under its URI
EntriesKept ==
  \A u \in DOMAIN files :
    /\ u \in DOMAIN files'
    /\ files'[u] # files[u] =>
         /\ \E q \in Reqs : pc[q] = "uploadFiles" /\ ItemUri(q, idx[q]) = u
         /\ files'[u].uri = u

\* C29: registered before acknowledged.  When an upload is answered with
\* a success list, every URI of the list is in the index, from the moment
\* of the response on: the entry under it has that URI and, unless another
\* stored file has the same URI, the name and type of the list's entry; no
\* step removes an entry of the index, and an entry changes only when an
\* upload registers an artifact under the same URI.
C29_RegisteredBeforeAcknowledged ==
  /\ [](\A r \in Reqs :
          (IsUpload(r) /\ Ok(r)) =>
            \A i \in DOMAIN res[r].list :
              LET u == res[r].list[i].uri IN
              /\ u \in DOMAIN files
              /\ files[u].uri = u
              /\ OwnUri(r, i) =>
                   /\ files[u].name = res[r].list[i].name
                   /\ files[u].mimeType = res[r].list[i].type)
  /\ [][EntriesKept]_vars

\* an upload was answered with a list of two URIs; a load that asked for
\* the two, which it can only have looked up after that response, was
\* answered with their contents, and the two URIs are in the index
C29_Witness ==
  \E r, q \in Reqs :
    /\ IsUpload(r) /\ Ok(r) /\ Len(res[r].list) = 2
    /\ res[r].list[1].uri # res[r].list[2].uri
    /\ IsLoad(q) /\ Ok(q) /\ Len(res[q].list) = 2
    /\ \A k \in 1..2 : AskedUri(q, k) = res[r].list[k].uri
    /\ \A i \in DOMAIN res[r].list : res[r].list[i].uri \in DOMAIN files

\* load r adds an entry to its results in this step
AddsEntry(r) == IsLoad(r) /\ Len(results'[r]) > Len(results[r])

\* C30: every artifact the upload route registers carries a non-empty
\* hash.  Every entry of the index, and every entity a load got from it,
\* has a non-empty hash; a load that has read a file goes on to the
\* integrity check, and a load adds an entry to its results only in the
\* step of the integrity check, never straight after the read.
C30_AlwaysVerified ==
  /\ [](/\ \A u \in DOMAIN files : files[u].hash # <<>>
        /\ \A r \in Reqs :
             IsLoad(r) => \A k \in DOMAIN found[r] :
               found[r][k] # NullFile => found[r][k].hash # <<>>)
  /\ [][\A r \in Reqs :
          /\ (pc[r] = "getFileRead" /\ pc'[r] # "getFileRead") =>
               \/ pc'[r] = "verifyFileIntegrity" /\ res'[r] = res[r]
               \/ pc'[r] = "sent" /\ res'[r].status # 200
          /\ AddsEntry(r) => pc[r] = "verifyFileIntegrity"]_vars

\* a load of two uploaded files has passed the integrity check of the
\* first, added its entry, and is at the integrity check of the second
C30_Witness ==
  \E r \in Reqs :
    /\ IsLoad(r)
    /\ pc[r] = "verifyFileIntegrity"
    /\ idx[r] = 2
    /\ Len(results[r]) = 1
    /\ found[r][2].hash # <<>>
    /\ found[r][2].uri \in DOMAIN files

====
